---- MODULE Spec2Model ----
(***************************************************************************)
(* A model of the ueink e-ink stack: the panel protocol driver of          *)
(* src/ueink/core (IEpd with the WaveShare B/W, WaveShare 3-colour and     *)
(* DESPI-C02 drivers and the one/two plane raw transfer) and the packed    *)
(* pixel formats of src/framebuf.                                          *)
(*                                                                         *)
(* Scheduling: the driver is used from cooperative (asyncio) tasks.  A     *)
(* call runs without interruption until it returns, raises, or reaches an  *)
(* `await asleep(...)`; only there may another task run.                   *)
(***************************************************************************)
EXTENDS Integers, Sequences, FiniteSets, TLC

VARIABLES
    epd,    \* the IEpd instance: its fields, its pins, the bus and the calls in progress
    twin,   \* a second, independent IEpd instance of the same class (SpecTwin only)
    fbuf,   \* a framebuf.FrameBuffer (SpecFb only)
    fop     \* the last FrameBuffer operation and how it ended (SpecFb only)

vars == <<epd, twin, fbuf, fop>>

(***************************************************************************)
(* Bounds of the model.                                                    *)
(***************************************************************************)
PanelCols == 1      \* panel width in bytes of a 1-bit row (width = 8 * PanelCols)
PanelH    == 3      \* panel height in pixels
MaxBlk    == 2      \* largest copy_block_size tried besides the default
MaxFlights == 2     \* calls of flush/flush_async alive at once

(***************************************************************************)
(* Program constants.                                                      *)
(***************************************************************************)
DefaultBlkSize   == 1024    \* self._blk_size = 1024
DefaultTimeout   == 10      \* _wait4ready(self, busy, timeout=10)
RefreshTimeout3C == 30      \* self._wait4ready(False, 30)
PollsPerTimeout  == 100     \* range(timeout * 100)

Min(a, b) == IF a < b THEN a ELSE b

Drivers == {"ws_bw", "ws_3c", "despi_c02"}
Kinds   == {"sync", "async"}

\* IEpd.parameters: cls._w, cls._h, cls._fb_len
PanelW == 8 * PanelCols
fb_len == (PanelW * PanelH + 1) \div 2
buf_len == fb_len \div 4

(***************************************************************************)
(* The bus: pin changes and SPI writes are appended to epd.log, the        *)
(* history of the flush that is running (or ran last).  ph names the part  *)
(* of the flush an event belongs to.                                       *)
(***************************************************************************)
NoData == [what |-> "none", bytes |-> <<>>]
Reg(bs) == [what |-> "reg", bytes |-> bs]
Lut(name) == [what |-> name, bytes |-> <<>>]     \* a waveform table of resources.py
Raw(bs) == [what |-> "raw", bytes |-> bs]

Ev(op, v, ph, d) == [op |-> op, v |-> v, ph |-> ph, what |-> d.what, bytes |-> d.bytes]

\* machine.Pin called with a value; NCSPin.__enter__ / __exit__ for cs and rst
pin(e, ph, name, v) ==
    [e EXCEPT !.pins[name] = v, !.log = Append(@, Ev(name, v, ph, NoData))]

spi_write(e, ph, d) == [e EXCEPT !.log = Append(@, Ev("wr", 0, ph, d))]

\* IEpd._data
data(e, ph, d) ==
    LET e1 == pin(e, ph, "dc", 1)
        e2 == pin(e1, ph, "cs", 0)
        e3 == spi_write(e2, ph, d)
    IN  pin(e3, ph, "cs", 1)

\* IEpd._cmd
cmd(e, ph, c, d) ==
    LET e1 == pin(e, ph, "dc", 0)
        e2 == pin(e1, ph, "cs", 0)
        e3 == spi_write(e2, ph, [what |-> "cmd", bytes |-> <<c>>])
        e4 == pin(e3, ph, "cs", 1)
    IN  IF d = NoData THEN e4 ELSE data(e4, ph, d)

\* `with self._rst: sleep(...)`
reset(e, ph) == pin(pin(e, ph, "rst", 0), ph, "rst", 1)

(***************************************************************************)
(* The drivers' _init and _flush as instruction lists.  The blocking       *)
(* sleeps between instructions touch neither the bus nor the state.        *)
(***************************************************************************)
Rst(ph) == [op |-> "rst", ph |-> ph, c |-> 0, d |-> NoData, busy |-> FALSE, timeout |-> 0]
Cmd(ph, c, d) == [op |-> "cmd", ph |-> ph, c |-> c, d |-> d, busy |-> FALSE, timeout |-> 0]
Wait(ph, busy, timeout) ==
    [op |-> "wait", ph |-> ph, c |-> 0, d |-> NoData, busy |-> busy, timeout |-> timeout]
Loop(op) == [op |-> op, ph |-> "data", c |-> 0, d |-> NoData, busy |-> FALSE, timeout |-> 0]

\* struct.pack of the panel dimensions
PackLE16(n) == <<n % 256, n \div 256>>
PackBE16(n) == <<n \div 256, n % 256>>

DrvWaveShareBw_init ==
    << Rst("init"), Wait("init", TRUE, DefaultTimeout),
       Cmd("init", 18, NoData), Wait("init", TRUE, DefaultTimeout),
       Cmd("init", 1, Reg(<<199, 0, 1>>)),
       Cmd("init", 17, Reg(<<1>>)),
       Cmd("init", 68, Reg(<<0, (PanelW - 1) \div 8>>)),
       Cmd("init", 69, Reg(PackLE16(PanelH - 1) \o PackLE16(0))),
       Cmd("init", 60, Reg(<<1>>)),
       Cmd("init", 24, Reg(<<128>>)),
       Cmd("init", 34, Reg(<<177>>)),
       Cmd("init", 32, NoData),
       Cmd("init", 78, Reg(<<0>>)),
       Cmd("init", 79, Reg(PackLE16(PanelH - 1))),
       Wait("init", TRUE, DefaultTimeout),
       Cmd("init", 50, Lut("EPD_WS_BW")), Wait("init", TRUE, DefaultTimeout),
       Cmd("init", 63, Lut("EPD_WS_BW[153:154]")),
       Cmd("init", 3, Lut("EPD_WS_BW[154:155]")),
       Cmd("init", 4, Lut("EPD_WS_BW[155:158]")),
       Cmd("init", 44, Lut("EPD_WS_BW[158:159]")) >>

DrvWaveShareBw_flush ==
    << Cmd("trigger", 34, Reg(<<199>>)), Cmd("trigger", 32, NoData),
       Wait("refresh", TRUE, DefaultTimeout),
       Cmd("off", 16, Reg(<<1>>)) >>

DrvWaveShare3Color_init ==
    << Rst("init"),
       Cmd("init", 6, Reg(<<23, 23, 23>>)),
       Cmd("init", 0, Reg(<<15>>)),
       Cmd("init", 97, Reg(PackBE16(PanelW) \o PackBE16(PanelH))),
       Cmd("init", 80, Reg(<<247>>)),
       Cmd("init", 4, NoData),
       Wait("init", FALSE, DefaultTimeout) >>

DrvWaveShare3Color_flush ==
    << Cmd("trigger", 18, NoData),
       Wait("refresh", FALSE, RefreshTimeout3C),
       Cmd("off", 16, Reg(<<1>>)) >>

DrvDespiC02_init ==
    << Rst("init"),
       Cmd("init", 1, Reg(<<7, 7, 63, 63, 0>>)),
       Cmd("init", 6, Reg(<<23, 23, 40, 23>>)),
       Cmd("init", 0, Reg(<<63>>)),
       Cmd("init", 97, Reg(PackBE16(PanelW) \o PackBE16(PanelH))),
       Cmd("init", 21, Reg(<<0>>)),
       Cmd("init", 130, Reg(<<48>>)),
       Cmd("init", 80, Reg(<<41, 7>>)),
       Cmd("init", 96, Reg(<<34>>)),
       Cmd("init", 146, NoData),
       Cmd("init", 32, Lut("EPD_GS4_LUT_VCOM")),
       Cmd("init", 33, Lut("EPD_GS4_LUT_W2W")),
       Cmd("init", 34, Lut("EPD_GS4_LUT_K2W")),
       Cmd("init", 35, Lut("EPD_GS4_LUT_W2K")),
       Cmd("init", 36, Lut("EPD_GS4_LUT_K2K")),
       Cmd("init", 4, NoData),
       Wait("init", FALSE, DefaultTimeout) >>

\* b"0xF7" and b"0xA5" are the four ASCII characters, as written in the source
DrvDespiC02_flush ==
    << Cmd("trigger", 18, NoData),
       Wait("refresh", FALSE, DefaultTimeout),
       Cmd("off", 80, Reg(<<48, 120, 70, 55>>)),
       Cmd("off", 2, NoData),
       Wait("off", FALSE, DefaultTimeout),
       Cmd("off", 7, Reg(<<48, 120, 65, 53>>)) >>

\* The decorators IEpd.driver_*: which _init, _flush and transform a class gets
init_of(drv) ==
    CASE drv = "ws_bw" -> DrvWaveShareBw_init
      [] drv = "ws_3c" -> DrvWaveShare3Color_init
      [] drv = "despi_c02" -> DrvDespiC02_init

flush_of(drv) ==
    CASE drv = "ws_bw" -> DrvWaveShareBw_flush
      [] drv = "ws_3c" -> DrvWaveShare3Color_flush
      [] drv = "despi_c02" -> DrvDespiC02_flush

\* cls._flush_async: the drivers under src/ define none; it is taken to be the
\* driver's _flush with every _wait4ready replaced by `await _wait4ready_async`
flush_async_of(drv) == flush_of(drv)

planes_of(drv) == IF drv = "ws_bw" THEN 1 ELSE 2

\* Transform1B._flush_raw_buffers / Transform2B._flush_raw_buffers: the command
\* that opens a plane, then the chunk loop
flush_raw_buffers_of(drv) ==
    IF planes_of(drv) = 1
    THEN << Cmd("data", 36, NoData), Loop("xfer1") >>
    ELSE << Cmd("data", 16, NoData), Loop("xfer2"), Cmd("data", 19, NoData), Loop("xfer2") >>


(***************************************************************************)
(* A flight is one call of _flush_raw / _flush_raw_async in progress:      *)
(*   kind    "sync" (flush) or "async" (flush_async)                       *)
(*   ip      the instruction of Prog it is at                              *)
(*   polls   reads of the busy pin done by the wait it is in               *)
(*   stream  what is left of the raw stream                                *)
(*   i       Transform2B's loop variable                                   *)
(*   susp    suspended in `await asleep(0.01)`                             *)
(***************************************************************************)
\* A flush that streamed the planes before it initialised the panel.
Prog_planes_first(drv, kind) ==
    flush_raw_buffers_of(drv) \o init_of(drv)
        \o (IF kind = "async" THEN flush_async_of(drv) ELSE flush_of(drv))

\* IEpd._flush_raw and IEpd._flush_raw_async after the guard:
\* self._init(); self._flush_raw_buffers(stream); self._flush() / await self._flush_async()
Prog(drv, kind) ==
    init_of(drv) \o flush_raw_buffers_of(drv)
        \o (IF kind = "async" THEN flush_async_of(drv) ELSE flush_of(drv))

\* _flush_raw_async runs the blocking self._init() and self._flush_raw_buffers();
\* only the awaited self._flush_async() waits with _wait4ready_async
Cooperative(drv, f) ==
    f.kind = "async" /\ f.ip > Len(init_of(drv)) + Len(flush_raw_buffers_of(drv))

RemoveAt(s, k) == SubSeq(s, 1, k - 1) \o SubSeq(s, k + 1, Len(s))

\* The finally of the mutant below is skipped when the flush raises.
flush_raw_exit_nofinally(e, k, res) ==
    [e EXCEPT !.fl = RemoveAt(@, k), !.res = res,
              !.flushing = IF e.fl[k].kind = "async" /\ res = "ok" THEN FALSE ELSE @]

\* Leaving _flush_raw (nothing to undo) or _flush_raw_async (finally:
\* self._flushing = False), by return (res "ok") or by the RuntimeError
flush_raw_exit(e, k, res) ==
    [e EXCEPT !.fl = RemoveAt(@, k), !.res = res,
              !.flushing = IF e.fl[k].kind = "async" THEN FALSE ELSE @]

\* The instruction at ip is done: go to the next, or return from the flush
Advance(e, k) ==
    IF e.fl[k].ip >= Len(Prog(e.drv, e.fl[k].kind))
    THEN flush_raw_exit(e, k, "ok")
    ELSE [e EXCEPT !.fl[k].ip = @ + 1, !.fl[k].polls = 0, !.fl[k].i = 0]

wait4ready_short(e, k, ins, rd) ==
    LET f == e.fl[k]
        rdy == IF ins.busy THEN 0 ELSE 1
    IN  IF f.polls >= ins.timeout * PollsPerTimeout - 1
        THEN flush_raw_exit(e, k, "timeout")
        ELSE IF rd = rdy
             THEN Advance([e EXCEPT !.log = Append(@, Ev("rdy", rd, ins.ph, NoData))], k)
             ELSE [e EXCEPT !.fl[k].polls = @ + 1]

\* IEpd._wait4ready, one turn of its loop: read the busy pin; return when it
\* shows ready, else sleep(0.01) holding the processor; after timeout * 100
\* turns raise RuntimeError("EPD Timeout")
\* A busy wait that writes the power-off command before it gives up
wait4ready_off_first(e, k, ins, rd) ==
    LET f == e.fl[k]
        rdy == IF ins.busy THEN 0 ELSE 1
    IN  IF f.polls >= ins.timeout * PollsPerTimeout
        THEN flush_raw_exit(cmd(e, "off", 16, Reg(<<1>>)), k, "timeout")
        ELSE IF rd = rdy
             THEN Advance([e EXCEPT !.log = Append(@, Ev("rdy", rd, ins.ph, NoData))], k)
             ELSE [e EXCEPT !.fl[k].polls = @ + 1]

wait4ready(e, k, ins, rd) ==
    LET f == e.fl[k]
        rdy == IF ins.busy THEN 0 ELSE 1
    IN  IF f.polls >= ins.timeout * PollsPerTimeout
        THEN flush_raw_exit(e, k, "timeout")
        ELSE IF rd = rdy
             THEN Advance([e EXCEPT !.log = Append(@, Ev("rdy", rd, ins.ph, NoData))], k)
             ELSE [e EXCEPT !.fl[k].polls = @ + 1]

wait4ready_async_long(e, k, ins, rd) ==
    LET f == e.fl[k]
        rdy == IF ins.busy THEN 0 ELSE 1
    IN  IF f.polls >= ins.timeout * PollsPerTimeout + 1
        THEN flush_raw_exit(e, k, "timeout")
        ELSE IF rd = rdy
             THEN Advance([e EXCEPT !.log = Append(@, Ev("rdy", rd, ins.ph, NoData))], k)
             ELSE [e EXCEPT !.fl[k].polls = @ + 1, !.fl[k].susp = TRUE]

\* IEpd._wait4ready_async: the same loop with `await asleep(0.01)`, which
\* gives the processor to the other tasks
wait4ready_async(e, k, ins, rd) ==
    LET f == e.fl[k]
        rdy == IF ins.busy THEN 0 ELSE 1
    IN  IF f.polls >= ins.timeout * PollsPerTimeout
        THEN flush_raw_exit(e, k, "timeout")
        ELSE IF rd = rdy
             THEN Advance([e EXCEPT !.log = Append(@, Ev("rdy", rd, ins.ph, NoData))], k)
             ELSE [e EXCEPT !.fl[k].polls = @ + 1, !.fl[k].susp = TRUE]

segm_len_whole_plane(e) == buf_len

\* segm_len = min(buf_len, self._blk_size)
segm_len(e) == Min(buf_len, e.blk)

\* stream.readinto(a buffer of n bytes): <<the bytes read, the rest of the stream>>
readinto(stream, n) ==
    LET cnt == Min(n, Len(stream))
    IN  <<SubSeq(stream, 1, cnt), SubSeq(stream, cnt + 1, Len(stream))>>

\* Transform1B._flush_raw_buffers, one turn of `while cnt:`
flush_raw_buffers_1B(e, k) ==
    LET r == readinto(e.fl[k].stream, segm_len(e))
    IN  IF Len(r[1]) = 0
        THEN Advance([e EXCEPT !.fl[k].stream = r[2]], k)
        ELSE [data(e, "data", Raw(r[1])) EXCEPT !.fl[k].stream = r[2]]

\* A plane loop that reads a whole segment in every turn, also in the last one
flush_raw_buffers_2B_whole_segm(e, k) ==
    LET f == e.fl[k]
        r == readinto(f.stream, segm_len(e))
    IN  IF f.i >= buf_len
        THEN Advance(e, k)
        ELSE [data(e, "data", Raw(r[1])) EXCEPT !.fl[k].stream = r[2],
                                                 !.fl[k].i = @ + segm_len(e)]

\* Transform2B._flush_raw_buffers, one turn of `for i in range(0, buf_len, segm_len)`
flush_raw_buffers_2B(e, k) ==
    LET f == e.fl[k]
        r == readinto(f.stream, Min(segm_len(e), buf_len - f.i))
    IN  IF f.i >= buf_len
        THEN Advance(e, k)
        ELSE [data(e, "data", Raw(r[1])) EXCEPT !.fl[k].stream = r[2],
                                                 !.fl[k].i = @ + segm_len(e)]

\* One step of flight k; rd is what the busy pin shows if the step reads it
Step(e, k, rd) ==
    LET f == e.fl[k]
        ins == Prog(e.drv, f.kind)[f.ip]
        e0 == [e EXCEPT !.fl[k].susp = FALSE]
    IN  CASE ins.op = "rst" -> Advance(reset(e0, ins.ph), k)
          [] ins.op = "cmd" -> Advance(cmd(e0, ins.ph, ins.c, ins.d), k)
          [] ins.op = "wait" -> IF Cooperative(e.drv, f)
                                THEN wait4ready_async(e0, k, ins, rd)
                                ELSE wait4ready(e0, k, ins, rd)
          [] ins.op = "xfer1" -> flush_raw_buffers_1B(e0, k)
          [] ins.op = "xfer2" -> flush_raw_buffers_2B(e0, k)

(***************************************************************************)
(* The entry points.                                                       *)
(***************************************************************************)
NoStream == [given |-> FALSE, bytes |-> <<>>]
Given(bs) == [given |-> TRUE, bytes |-> bs]

\* The raw frame of the frame buffer as _renewfb leaves it (filled with
\* color["white"], every plane bit set): fb_len // 4 bytes from Transform1B._fb2raw,
\* fb_len // 2 from Transform2B._fb2raw_com
fb2raw(e) ==
    [j \in 1..(IF planes_of(e.drv) = 1 THEN fb_len \div 4 ELSE fb_len \div 2) |-> 255]

preflush_nofbcheck(e, s) ==
    IF ~e.spi
    THEN [err |-> "nospi", stream |-> <<>>]
    ELSE IF ~s.given
         THEN [err |-> "", stream |-> fb2raw(e)]
         ELSE [err |-> "", stream |-> s.bytes]

\* IEpd._preflush
preflush(e, s) ==
    IF ~e.spi
    THEN [err |-> "nospi", stream |-> <<>>]
    ELSE IF ~s.given
         THEN IF ~e.fb
              THEN [err |-> "nofb", stream |-> <<>>]
              ELSE [err |-> "", stream |-> fb2raw(e)]
         ELSE [err |-> "", stream |-> s.bytes]

NewFlight(kind, stream) ==
    [kind |-> kind, ip |-> 1, polls |-> 0, stream |-> stream, i |-> 0, susp |-> FALSE]

\* The body of the flush begins: `logger.info("Display frame:")`
Start(e, kind, stream) ==
    [e EXCEPT !.fl = Append(@, NewFlight(kind, stream)), !.log = <<>>, !.res = ""]

\* IEpd._flush_raw up to self._init()
flush_raw(e, stream) ==
    IF e.flushing THEN [e EXCEPT !.res = "already"] ELSE Start(e, "sync", stream)

flush_raw_async_noflag(e, stream) ==
    IF e.flushing THEN [e EXCEPT !.res = "already"] ELSE Start(e, "async", stream)

\* IEpd._flush_raw_async up to self._init()
flush_raw_async(e, stream) ==
    IF e.flushing
    THEN [e EXCEPT !.res = "already"]
    ELSE Start([e EXCEPT !.flushing = TRUE], "async", stream)

\* IEpd.flush
flush(e, s) ==
    LET p == preflush(e, s)
    IN  IF p.err # "" THEN [e EXCEPT !.res = p.err] ELSE flush_raw(e, p.stream)

\* IEpd.flush_async
flush_async(e, s) ==
    LET p == preflush(e, s)
    IN  IF p.err # "" THEN [e EXCEPT !.res = p.err] ELSE flush_raw_async(e, p.stream)

Call(e, kind, s) == IF kind = "sync" THEN flush(e, s) ELSE flush_async(e, s)

(***************************************************************************)
(* The driver's state machine: one instance, used by several cooperative   *)
(* tasks, with the copy block size of the constructor.                     *)
(***************************************************************************)
Ramp(n) == [j \in 1..n |-> j]

\* The streams a caller passes: none, or a file longer than two planes
StreamArgs == {NoStream, Given(Ramp(2 * buf_len + 1))}

BlkSizes == (1..MaxBlk) \cup {DefaultBlkSize}

\* IEpd.__init__
NewEpd(drv, spi) ==
    [drv |-> drv, spi |-> spi, fb |-> FALSE, blk |-> DefaultBlkSize, flushing |-> FALSE,
     pins |-> [cs |-> 1, dc |-> 0, rst |-> 1], log |-> <<>>, fl |-> <<>>, res |-> ""]

Idle(e) == Len(e.fl) = 0
\* No flight holds the processor: another task may run
CanCall(e) == \A j \in 1..Len(e.fl) : e.fl[j].susp
Runnable(e, k) == k \in 1..Len(e.fl) /\ (~e.fl[k].susp \/ CanCall(e))
InsAt(e, k) == Prog(e.drv, e.fl[k].kind)[e.fl[k].ip]

NoTwin == <<>>
NoFb == <<>>
NoOp == <<>>

Init ==
    /\ epd \in {NewEpd(drv, spi) : drv \in Drivers, spi \in BOOLEAN}
    /\ twin = NoTwin
    /\ fbuf = NoFb
    /\ fop = NoOp

\* A task reads the fb property: IEpd._mkfb
MkFb ==
    /\ Idle(epd) /\ ~epd.fb
    /\ epd' = [epd EXCEPT !.fb = TRUE]
    /\ UNCHANGED <<twin, fbuf, fop>>

\* A task calls flush(stream) or flush_async(stream)
Request ==
    /\ CanCall(epd) /\ Len(epd.fl) < MaxFlights
    /\ \E kind \in Kinds, s \in StreamArgs : epd' = Call(epd, kind, s)
    /\ UNCHANGED <<twin, fbuf, fop>>

StepOf(op) ==
    /\ \E k \in 1..Len(epd.fl), rd \in {0, 1} :
          /\ Runnable(epd, k)
          /\ InsAt(epd, k).op = op
          /\ epd' = Step(epd, k, rd)
    /\ UNCHANGED <<twin, fbuf, fop>>

StepReset == StepOf("rst")
StepCmd == StepOf("cmd")
StepWait == StepOf("wait")
StepXfer1 == StepOf("xfer1")
StepXfer2 == StepOf("xfer2")

Next ==
    \/ MkFb
    \/ Request
    \/ StepReset
    \/ StepCmd
    \/ StepWait
    \/ StepXfer1
    \/ StepXfer2

Spec == Init /\ [][Next]_vars


(***************************************************************************)
(* Two instances of one driver class, each with its own bus, given the     *)
(* same calls, the same stream and the same busy-pin readings: epd is      *)
(* flushed with flush(), twin with flush_async().                          *)
(***************************************************************************)
TwinInit ==
    /\ \E drv \in Drivers : epd = NewEpd(drv, TRUE) /\ twin = NewEpd(drv, TRUE)
    /\ fbuf = NoFb
    /\ fop = NoOp

TwinMkFb ==
    /\ Idle(epd) /\ Idle(twin) /\ ~epd.fb
    /\ epd' = [epd EXCEPT !.fb = TRUE]
    /\ twin' = [twin EXCEPT !.fb = TRUE]
    /\ UNCHANGED <<fbuf, fop>>

TwinSetCopyBlockSize ==
    /\ Idle(epd) /\ Idle(twin)
    /\ \E v \in BlkSizes : epd' = [epd EXCEPT !.blk = v] /\ twin' = [twin EXCEPT !.blk = v]
    /\ UNCHANGED <<fbuf, fop>>

TwinFlush ==
    /\ Idle(epd) /\ Idle(twin)
    /\ \E s \in StreamArgs : epd' = flush(epd, s) /\ twin' = flush_async(twin, s)
    /\ UNCHANGED <<fbuf, fop>>

TwinStep ==
    /\ Len(epd.fl) = 1 /\ Len(twin.fl) = 1
    /\ \E rd \in {0, 1} : epd' = Step(epd, 1, rd) /\ twin' = Step(twin, 1, rd)
    /\ UNCHANGED <<fbuf, fop>>

TwinNext ==
    \/ TwinMkFb
    \/ TwinSetCopyBlockSize
    \/ TwinFlush
    \/ TwinStep

SpecTwin == TwinInit /\ [][TwinNext]_vars

(***************************************************************************)
(* The claims about the panel protocol driver.                             *)
(***************************************************************************)
InFlight(e) == Len(e.fl) >= 1
\* r is e but for the result reported to the caller
OnlyReports(r, e) == r = [e EXCEPT !.res = r.res]

\* C1 as stated: a flush or flush_async requested while a flush of the instance
\* is in progress fails with the 'already flushing' error, writes nothing to the
\* bus, changes no pin and leaves the guard flag as it is.
C1_original ==
    \A kind \in Kinds, s \in StreamArgs :
        (InFlight(epd) /\ CanCall(epd)) =>
            LET r == Call(epd, kind, s)
            IN  r.res = "already" /\ OnlyReports(r, epd)

\* C1 amended: the request fails, with the 'frame buffer was not created' error
\* when it passes no stream and the frame buffer was never created (_preflush
\* runs before the guard) and with the 'already flushing' error otherwise; in
\* both cases no SPI write, no pin change, the guard flag and the flush in
\* progress untouched.
C1_amended ==
    \A kind \in Kinds, s \in StreamArgs :
        (InFlight(epd) /\ CanCall(epd)) =>
            LET r == Call(epd, kind, s)
            IN  /\ r.res = (IF ~s.given /\ ~epd.fb THEN "nofb" ELSE "already")
                /\ OnlyReports(r, epd)
                /\ epd.flushing

C1_witness ==
    /\ Len(epd.fl) = 1 /\ epd.fl[1].susp
    /\ epd.res = "already" /\ epd.flushing

\* C2: once a flush has ended with the busy-pin timeout, the guard flag is false
\* and no flush is left in progress, so the next flush or flush_async is not
\* rejected as concurrent.
C2_guard_cleared ==
    epd.res = "timeout" =>
        /\ ~epd.flushing
        /\ Idle(epd)
        /\ \A kind \in Kinds, s \in StreamArgs : Call(epd, kind, s).res # "already"

C2_witness == epd.res = "timeout" /\ Len(epd.log) > 0 /\ ~epd.flushing

\* C3: a wait ends with the timeout error only after exactly timeout * 100 reads
\* of the busy pin that all showed not-ready, and then it does; before that every
\* read either shows ready, and the wait returns at that read, or counts as one
\* more not-ready read.
C3_step ==
    (Len(epd.fl) = 1 /\ InsAt(epd, 1).op = "wait" /\ epd'.fl # epd.fl) =>
        LET f == epd.fl[1]
            bound == InsAt(epd, 1).timeout * 100
            timedOut == Len(epd'.fl) = 0 /\ epd'.res = "timeout"
            returned == /\ epd'.log = Append(epd.log, Ev("rdy", IF InsAt(epd, 1).busy THEN 0 ELSE 1,
                                                         InsAt(epd, 1).ph, NoData))
                        /\ \/ Len(epd'.fl) = 0 /\ epd'.res = "ok"
                           \/ Len(epd'.fl) = 1 /\ epd'.fl[1].ip = f.ip + 1
            notReady == /\ Len(epd'.fl) = 1 /\ epd'.fl[1].ip = f.ip
                        /\ epd'.fl[1].polls = f.polls + 1
                        /\ epd'.log = epd.log
        IN  /\ f.polls <= bound
            /\ f.polls = bound => timedOut
            /\ f.polls < bound => (returned \/ notReady) /\ ~timedOut

C3_exact_poll_bound == [][C3_step]_vars

C3_witness ==
    /\ Len(epd.fl) = 1 /\ InsAt(epd, 1).op = "wait" /\ InsAt(epd, 1).ph = "refresh"
    /\ epd.fl[1].polls = InsAt(epd, 1).timeout * 100

\* C4: flush and flush_async fail at once, changing nothing but the error
\* reported, when no SPI bus is configured, and when no stream is passed and the
\* frame buffer was never created; with a stream passed and no frame buffer the
\* check is passed.
C4_preflush ==
    \A kind \in Kinds, s \in StreamArgs :
        CanCall(epd) =>
            LET r == Call(epd, kind, s)
            IN  /\ ~epd.spi => r = [epd EXCEPT !.res = "nospi"]
                /\ (epd.spi /\ ~s.given /\ ~epd.fb) => r = [epd EXCEPT !.res = "nofb"]
                /\ (epd.spi /\ s.given /\ ~epd.fb) => r.res \in {"", "already"}
                /\ (epd.spi /\ s.given /\ ~epd.fb /\ ~epd.flushing) => InFlight(r)

C4_witness == epd.res = "nofb" /\ ~epd.fb /\ epd.spi /\ Idle(epd) /\ epd.log = <<>>

Rank(ev) ==
    CASE ev.ph = "init" -> 1
      [] ev.ph = "data" -> 2
      [] ev.ph = "trigger" -> 3
      [] ev.ph = "refresh" -> 4
      [] ev.ph = "off" -> 5

\* The bus events one instruction makes
EvCount(ins) ==
    CASE ins.op = "rst" -> 2
      [] ins.op = "cmd" -> IF ins.d = NoData THEN 4 ELSE 8
      [] ins.op = "wait" -> 1
      [] OTHER -> 0

RECURSIVE EvTotal(_)
EvTotal(prog) == IF prog = <<>> THEN 0 ELSE EvCount(Head(prog)) + EvTotal(Tail(prog))

OrderOk(e) ==
    LET L == e.log
    IN  /\ \A j \in 1..(Len(L) - 1) : Rank(L[j]) <= Rank(L[j + 1])
        /\ Len(L) > 0 => L[1].op = "rst"
        /\ \A j \in 1..Len(L) :
              /\ L[j].ph = "data" => j > EvTotal(init_of(e.drv))
              /\ L[j].ph = "off" =>
                    \E i \in 1..(j - 1) :
                        /\ L[i].op = "rdy" /\ L[i].ph = "refresh"
                        /\ \E h \in 1..(i - 1) : L[h].ph = "trigger" /\ L[h].what = "cmd"

\* C5: the bus events of a flush (blocking or cooperative) come in the order
\* initialisation (reset pulse first), raw data, refresh trigger, the refresh
\* wait seeing ready, power-off; raw data is written only after the whole
\* initialisation, and a power-off command only after the refresh wait has seen
\* the ready level.
C5_order == OrderOk(epd) /\ OrderOk(twin)

C5_witness ==
    /\ epd.res = "ok" /\ Len(epd.log) > 0 /\ twin.log = epd.log
    /\ epd.log[Len(epd.log) - 1].ph = "off"
    /\ \E j \in 1..Len(epd.log) : epd.log[j].what = "raw"

ChunksOk(e) ==
    InFlight(e) =>
        LET L == e.log
        IN  \A j \in 1..Len(L) :
                (L[j].op = "wr" /\ L[j].what = "raw") =>
                    /\ e.blk >= 1
                    /\ Len(L[j].bytes) <= e.blk
                    /\ j >= 3 /\ j < Len(L)
                    /\ L[j - 2].op = "dc" /\ L[j - 2].v = 1
                    /\ L[j - 1].op = "cs" /\ L[j - 1].v = 0
                    /\ L[j + 1].op = "cs" /\ L[j + 1].v = 1

\* C6: while a flush (blocking or cooperative) is in progress every raw-plane
\* write on its bus carries at most copy_block_size bytes, comes right after D/C
\* is set to data and chip-select is asserted, and is followed by the release of
\* chip-select.
C6_chunks == ChunksOk(epd) /\ ChunksOk(twin)

\* a block size that does not divide the plane length: a full and a partial chunk
C6_witness ==
    /\ InFlight(epd) /\ buf_len % epd.blk # 0
    /\ \E j \in 1..Len(epd.log) :
          epd.log[j].what = "raw" /\ Len(epd.log[j].bytes) = epd.blk
    /\ \E j \in 1..Len(epd.log) :
          epd.log[j].what = "raw" /\ Len(epd.log[j].bytes) = buf_len % epd.blk

C8_every_wait_yields ==
    \A k \in 1..Len(epd.fl) :
        LET f == epd.fl[k]
        IN  (f.kind = "async" /\ InsAt(epd, k).op = "wait" /\ f.polls > 0) => f.susp


(***************************************************************************)
(* framebuf: the packed pixel formats.  A FrameBuffer is                   *)
(*   [format, width, height, stride, buf]                                  *)
(* with buf the byte storage (Python index i is buf[i + 1]).  An operation *)
(* gives [buf, err]: the storage as it leaves it and the exception it      *)
(* raised ("" for none).  Inside an operation the same record is the state *)
(* its statements run in: a statement after a raised exception does        *)
(* nothing.                                                                *)
(***************************************************************************)
FbW == 3            \* bound: buffer width in pixels
FbH == 2            \* bound: buffer height in pixels
MaxSweep == 12      \* bound: turns of one sweep loop of ellipse that are followed

GS4_HMSB == 2
MONO_HLSB == 3
MVLSB == 0

\* The formats whose module is among the sources (fb_gs4_hmsb, fb_mhlsb, fb_mvlsb)
Formats == {GS4_HMSB, MONO_HLSB, MVLSB}

RECURSIVE BitAnd(_, _)
BitAnd(a, b) ==
    IF a = 0 \/ b = 0 THEN 0 ELSE (a % 2) * (b % 2) + 2 * BitAnd(a \div 2, b \div 2)

RECURSIVE BitOr(_, _)
BitOr(a, b) ==
    IF a = 0 THEN b
    ELSE IF b = 0 THEN a
    ELSE (IF a % 2 = 1 \/ b % 2 = 1 THEN 1 ELSE 0) + 2 * BitOr(a \div 2, b \div 2)

RECURSIVE Pow2(_)
Pow2(k) == IF k = 0 THEN 1 ELSE 2 * Pow2(k - 1)
Shl(a, k) == a * Pow2(k)
Shr(a, k) == a \div Pow2(k)
\* a & ~m
AndNot(a, m) == a - BitAnd(a, m)

\* _fb_format_decorator: the alignment factor of a format
align_factor(fmt) ==
    CASE fmt = GS4_HMSB -> 1
      [] fmt = MONO_HLSB -> 7
      [] fmt = MVLSB -> 0

\* FrameBuffer.__init__ with stride omitted, over zeroed storage of the size the
\* stride asks for
FrameBuffer(fmt, width, height) ==
    LET stride == AndNot(width + align_factor(fmt), align_factor(fmt))
        size == CASE fmt = GS4_HMSB -> (stride * height + 1) \div 2
                  [] fmt = MONO_HLSB -> (stride \div 8) * height
                  [] fmt = MVLSB -> stride * ((height + 7) \div 8)
    IN  [format |-> fmt, width |-> width, height |-> height, stride |-> stride,
         buf |-> [j \in 1..size |-> 0]]

Ok(buf) == [buf |-> buf, err |-> ""]
Raised(buf, err) == [buf |-> buf, err |-> err]
\* The frame buffer with its storage as the state st has it
After(fb, st) == [fb EXCEPT !.buf = st.buf]

\* Python's subscript of a sequence of n items: a negative index counts from
\* the end, and an index outside -n .. n - 1 is an IndexError
PyIndex(n, i) == IF i < 0 THEN i + n ELSE i
ValidIndex(buf, i) == PyIndex(Len(buf), i) >= 0 /\ PyIndex(Len(buf), i) < Len(buf)

\* fb.buf[i] read as an operand.  In every statement of the formats that reads
\* fb.buf[i] for a store, the store is to the same i, and Store raises the
\* IndexError of an invalid i.
Load(buf, i) == IF ValidIndex(buf, i) THEN buf[PyIndex(Len(buf), i) + 1] ELSE 0

\* fb.buf[i] = v
Store(st, i, v) ==
    IF st.err # ""
    THEN st
    ELSE IF ~ValidIndex(st.buf, i)
    THEN [st EXCEPT !.err = "IndexError"]
    ELSE [st EXCEPT !.buf[PyIndex(Len(st.buf), i) + 1] = v]

\* Python's clamping of a slice bound for a sequence of n items
SliceBound(n, i) == IF i < 0 THEN (IF i + n < 0 THEN 0 ELSE i + n) ELSE (IF i > n THEN n ELSE i)
BoolInt(b) == IF b THEN 1 ELSE 0

\* fb_gs4_hmsb._setpixel
gs4_hmsb_setpixel(fb, x, y, col) ==
    LET color == BitAnd(col, 15)
        offset == (x + y * fb.stride) \div 2
    IN  IF x % 2 = 1
        THEN Store(Ok(fb.buf), offset, BitOr(BitAnd(color, 15), BitAnd(Load(fb.buf, offset), 240)))
        ELSE Store(Ok(fb.buf), offset, BitOr(Shl(color, 4), BitAnd(Load(fb.buf, offset), 15)))

\* fb_gs4_hmsb._getpixel
gs4_hmsb_getpixel(fb, x, y) ==
    IF x % 2 = 1
    THEN BitAnd(Load(fb.buf, (x + y * fb.stride) \div 2), 15)
    ELSE Shr(Load(fb.buf, (x + y * fb.stride) \div 2), 4)

\* fb.buf[a : a + n] = pairs_line[:n]: the bytes between the clamped bounds are
\* replaced by n bytes v, the bytearray growing or shrinking when the slice is
\* not n bytes long
SliceFill(st, a, n, v) ==
    LET len == Len(st.buf)
        lo == SliceBound(len, a)
        hi == IF SliceBound(len, a + n) < lo THEN lo ELSE SliceBound(len, a + n)
    IN  IF st.err # ""
        THEN st
        ELSE [st EXCEPT !.buf = SubSeq(st.buf, 1, lo) \o [j \in 1..n |-> v]
                                    \o SubSeq(st.buf, hi + 1, len)]

\* fb_gs4_hmsb._fill_rect: the rows of `for _ in range(h)` that are left
RECURSIVE gs4_hmsb_fill_rows(_, _, _, _, _, _, _)
gs4_hmsb_fill_rows(st, offset, rows, w, odd_x, c, bytes_till_next) ==
    IF rows = 0 \/ st.err # ""
    THEN st
    ELSE LET color_right == BitAnd(c, 15)
             color_left == Shl(color_right, 4)
             col_pixel_pair == BitOr(color_left, color_right)
             b1 == IF odd_x = 1
                   THEN Store(st, offset, BitOr(BitAnd(Load(st.buf, offset), 240), color_right))
                   ELSE st
             o1 == offset + odd_x
             width == w - odd_x
             bytes_width == width \div 2
             b2 == SliceFill(b1, o1, bytes_width, col_pixel_pair)
             o2 == o1 + bytes_width
             b3 == IF width % 2 = 1
                   THEN Store(b2, o2, BitOr(color_left, BitAnd(Load(b2.buf, o2), 15)))
                   ELSE b2
             o3 == IF width % 2 = 1 /\ odd_x = 0 THEN o2 + 1 ELSE o2
         IN  gs4_hmsb_fill_rows(b3, o3 + bytes_till_next, rows - 1, w, odd_x, c, bytes_till_next)

\* fb_gs4_hmsb._fill_rect
gs4_hmsb_fill_rect(fb, x, y, w, h, c) ==
    IF w <= 0 \/ h <= 0
    THEN Ok(fb.buf)
    ELSE gs4_hmsb_fill_rows(Ok(fb.buf), (x + y * fb.stride) \div 2, h, w, x % 2, c,
                            (fb.stride - w) \div 2)

\* fb.buf[i] = (fb.buf[i] & ~(0x01 << offset)) | ((col != 0) << offset)
StoreBit(st, i, offset, col) ==
    Store(st, i, BitOr(AndNot(Load(st.buf, i), Shl(1, offset)), Shl(BoolInt(col # 0), offset)))

\* fb_mhlsb._setpixel
mhlsb_setpixel(fb, x, y, col) ==
    LET index == Shr(x + y * fb.stride, 3)
        offset == 7 - BitAnd(x, 7)
    IN  StoreBit(Ok(fb.buf), index, offset, col)

\* fb_mhlsb._getpixel
mhlsb_getpixel(fb, x, y) ==
    LET index == Shr(x + y * fb.stride, 3)
        offset == 7 - BitAnd(x, 7)
    IN  BitAnd(Shr(Load(fb.buf, index), offset), 1)

\* fb_mhlsb._fill_rect: the first turn of the inner loop stores the bit of (x, y)
\* and then runs `b += advance` with b never assigned, an UnboundLocalError
mhlsb_fill_rect(fb, x, y, w, h, col) ==
    LET advance == Shr(fb.stride, 3)
        o == Shr(x, 3) + y * advance
        offset == 7 - BitAnd(x, 7)
        stored == StoreBit(Ok(fb.buf), o, offset, col)
    IN  IF w <= 0 \/ h <= 0
        THEN Ok(fb.buf)
        ELSE IF stored.err # ""
        THEN stored
        ELSE Raised(stored.buf, "UnboundLocalError")

\* fb_mvlsb._setpixel: its body reads self.buf, and the function has no name
\* self: a NameError before anything is stored
mvlsb_setpixel(fb, x, y, col) == Raised(fb.buf, "NameError")

\* fb_mvlsb._getpixel
mvlsb_getpixel(fb, x, y) ==
    BitAnd(Shr(Load(fb.buf, Shr(y, 3) * fb.stride + x), BitAnd(y, 7)), 1)

\* fb_mvlsb._fill_rect, the inner `for _ in range(w)`
RECURSIVE mvlsb_fill_row(_, _, _, _, _)
mvlsb_fill_row(st, o, n, offset, col) ==
    IF n <= 0 \/ st.err # ""
    THEN st
    ELSE mvlsb_fill_row(StoreBit(st, o, offset, col), o + 1, n - 1, offset, col)

\* fb_mvlsb._fill_rect: `++y` leaves y as it is, so each of the h turns fills
\* the same row y
RECURSIVE mvlsb_fill_rows(_, _, _, _, _, _, _)
mvlsb_fill_rows(fb, st, x, y, w, rows, col) ==
    IF rows <= 0 \/ st.err # ""
    THEN st
    ELSE mvlsb_fill_rows(fb, mvlsb_fill_row(st, Shr(y, 3) * fb.stride + x, w, BitAnd(y, 7), col),
                         x, y, w, rows - 1, col)

mvlsb_fill_rect(fb, x, y, w, h, col) == mvlsb_fill_rows(fb, Ok(fb.buf), x, y, w, h, col)

\* The methods decorate_* binds to a FrameBuffer
setpixel(fb, x, y, col) ==
    CASE fb.format = GS4_HMSB -> gs4_hmsb_setpixel(fb, x, y, col)
      [] fb.format = MONO_HLSB -> mhlsb_setpixel(fb, x, y, col)
      [] fb.format = MVLSB -> mvlsb_setpixel(fb, x, y, col)

getpixel(fb, x, y) ==
    CASE fb.format = GS4_HMSB -> gs4_hmsb_getpixel(fb, x, y)
      [] fb.format = MONO_HLSB -> mhlsb_getpixel(fb, x, y)
      [] fb.format = MVLSB -> mvlsb_getpixel(fb, x, y)

fill_rect(fb, x, y, w, h, col) ==
    CASE fb.format = GS4_HMSB -> gs4_hmsb_fill_rect(fb, x, y, w, h, col)
      [] fb.format = MONO_HLSB -> mhlsb_fill_rect(fb, x, y, w, h, col)
      [] fb.format = MVLSB -> mvlsb_fill_rect(fb, x, y, w, h, col)

InBounds(fb, x, y) == 0 <= x /\ x < fb.width /\ 0 <= y /\ y < fb.height

\* FrameBuffer.pixel(x, y, col) with col >= 0
pixel_set(fb, x, y, col) ==
    IF InBounds(fb, x, y) THEN setpixel(fb, x, y, col) ELSE Ok(fb.buf)

\* What pixel(x, y) returns for a pixel outside the buffer
None == "None"

\* FrameBuffer.pixel(x, y) (col < 0): the value read
pixel_get(fb, x, y) ==
    IF InBounds(fb, x, y) THEN getpixel(fb, x, y) ELSE None

\* self._setpixel(self, x, y, col) and self._fill_rect(self, x, y, w, h, col)
\* as the next statement of a method whose statements so far left st
SetPixel(fb, st, x, y, col) ==
    IF st.err # "" THEN st ELSE setpixel(After(fb, st), x, y, col)
FillRect(fb, st, x, y, w, h, col) ==
    IF st.err # "" THEN st ELSE fill_rect(After(fb, st), x, y, w, h, col)

\* FrameBuffer.fill
fill(fb, col) == fill_rect(fb, 0, 0, fb.width, fb.height, col)

\* FrameBuffer.rect
rect(fb, x, y, width, height, col, filled) ==
    IF filled
    THEN fill_rect(fb, x, y, width, height, col)
    ELSE LET s1 == fill_rect(fb, x, y, width, 1, col)
             s2 == FillRect(fb, s1, x, y + height - 1, width, 1, col)
             s3 == FillRect(fb, s2, x, y, 1, height, col)
         IN  FillRect(fb, s3, x + width - 1, y, 1, height, col)

\* FrameBuffer.rect(x, y, width, height, col, fill=True)
rect_filled(fb, x, y, w, h, col) == rect(fb, x, y, w, h, col, TRUE)

\* FrameBuffer.hline
hline(fb, x, y, w, col) == fill_rect(fb, x, y, w, 1, col)

\* FrameBuffer.vline: self._fill_rect(self, self, x, y, 1, h, col) passes seven
\* arguments to a function of six, a TypeError before anything is stored
vline(fb, x, y, h, col) == Raised(fb.buf, "TypeError")

Abs(n) == IF n < 0 THEN -n ELSE n

\* FrameBuffer.line, `while e >= 0`: <<y1, e>> when the loop is left
RECURSIVE line_while(_, _, _, _)
line_while(y1, e, sy, dx) ==
    IF e >= 0 THEN line_while(y1 + sy, e - 2 * dx, sy, dx) ELSE <<y1, e>>

\* FrameBuffer.line, the turns of `for _ in range(dx)` that are left.  k holds
\* what the loop does not change, v its variables, the state st of the storage
\* and pts, the points the loop has come to (bounds-checked before they are set)
RECURSIVE line_for(_, _, _, _)
line_for(fb, k, v, turns) ==
    IF turns <= 0 \/ v.st.err # ""
    THEN v
    ELSE LET px == IF k.steep THEN v.y1 ELSE v.x1
             py == IF k.steep THEN v.x1 ELSE v.y1
             set == IF InBounds(fb, px, py) THEN SetPixel(fb, v.st, px, py, k.col) ELSE v.st
             w == line_while(v.y1, v.e, k.sy, k.dx)
         IN  line_for(fb, k,
                      [st |-> set, x1 |-> v.x1 + k.sx, y1 |-> w[1], e |-> w[2] + 2 * k.dy,
                       pts |-> Append(v.pts, <<px, py>>)],
                      turns - 1)

line_done(st, pts) == [buf |-> st.buf, err |-> st.err, pts |-> pts]

\* FrameBuffer.line after its loop, which left v: the last point
line_last(fb, v, x2, y2, col) ==
    line_done(IF v.st.err = "" /\ InBounds(fb, x2, y2)
              THEN SetPixel(fb, v.st, x2, y2, col)
              ELSE v.st,
              IF v.st.err = "" THEN Append(v.pts, <<x2, y2>>) ELSE v.pts)

\* FrameBuffer.line: [buf, err, pts]
line(fb, x1, y1, x2, y2, col) ==
    LET dx0 == Abs(x2 - x1)
        sx0 == IF x2 - x1 > 0 THEN 1 ELSE -1
        dy0 == Abs(y2 - y1)
        sy0 == IF y2 - y1 > 0 THEN 1 ELSE -1
        steep == dy0 > dx0
        k == [steep |-> steep, col |-> col,
              dx |-> IF steep THEN dy0 ELSE dx0, dy |-> IF steep THEN dx0 ELSE dy0,
              sx |-> IF steep THEN sy0 ELSE sx0, sy |-> IF steep THEN sx0 ELSE sy0]
    IN  line_last(fb,
                  line_for(fb, k,
                           [st |-> Ok(fb.buf), x1 |-> IF steep THEN y1 ELSE x1,
                            y1 |-> IF steep THEN x1 ELSE y1, e |-> 2 * k.dy - k.dx, pts |-> <<>>],
                           k.dx),
                  x2, y2, col)

Max(a, b) == IF a > b THEN a ELSE b

\* blit's palette=None, and a frame buffer's truth value (an object is true)
NoPalette == <<>>
\* blit's key=-1
NoKey == -1

\* FrameBuffer.blit, `for cx0 in range(x0, x0end)` of one row.  v holds the
\* state st of the destination storage and cps, the copies made so far:
\* [dx, dy, sx, sy, col, set] for the destination pixel, the source pixel read,
\* the colour after the palette and whether it was set
RECURSIVE blit_for(_, _, _, _, _, _, _, _, _, _)
blit_for(fb, source, key, palette, v, cx0, x0end, cx1, y0, y1) ==
    IF cx0 >= x0end \/ v.st.err # ""
    THEN v
    ELSE LET raw == getpixel(source, cx1, y1)
             col == IF palette # NoPalette THEN getpixel(palette, raw, 0) ELSE raw
             set == IF col # key THEN SetPixel(fb, v.st, cx0, y0, col) ELSE v.st
             cp == [dx |-> cx0, dy |-> y0, sx |-> cx1, sy |-> y1, col |-> col, set |-> col # key]
         IN  blit_for(fb, source, key, palette, [st |-> set, cps |-> Append(v.cps, cp)],
                      cx0 + 1, x0end, cx1 + 1, y0, y1)

\* FrameBuffer.blit, `while y0 < y0end`
RECURSIVE blit_while(_, _, _, _, _, _, _, _, _, _, _)
blit_while(fb, source, key, palette, v, x0, x0end, x1, y0, y0end, y1) ==
    IF y0 >= y0end \/ v.st.err # ""
    THEN v
    ELSE blit_while(fb, source, key, palette,
                    blit_for(fb, source, key, palette, v, x0, x0end, x1, y0, y1),
                    x0, x0end, x1, y0 + 1, y0end, y1 + 1)

\* FrameBuffer.blit: [buf, err, cps]
blit(fb, source, x, y, key, palette) ==
    IF x >= fb.width \/ y >= fb.height \/ -x >= source.width \/ -y >= source.height
    THEN [buf |-> fb.buf, err |-> "", cps |-> <<>>]
    ELSE LET v == blit_while(fb, source, key, palette, [st |-> Ok(fb.buf), cps |-> <<>>],
                             Max(0, x), Min(fb.width, x + source.width), Max(0, -x),
                             Max(0, y), Min(fb.height, y + source.height), Max(0, -y))
         IN  [buf |-> v.st.buf, err |-> v.st.err, cps |-> v.cps]

\* Frame buffers to blit from, in the format fmt: 2 x 2 with the diagonal set
\* to c, and one pixel wider and taller than the destination with every pixel c
Diagonal(fmt, c) ==
    [FrameBuffer(fmt, 2, 2) EXCEPT !.buf =
        CASE fmt = GS4_HMSB -> <<16 * c, c>>
          [] fmt = MONO_HLSB -> <<128 * c, 64 * c>>
          [] fmt = MVLSB -> <<c, 2 * c>>]
Flat(fmt, c) ==
    LET fb == FrameBuffer(fmt, FbW + 1, FbH + 1)
    IN  [fb EXCEPT !.buf = [j \in 1..Len(fb.buf) |-> IF fmt = GS4_HMSB THEN 17 * c ELSE 255 * c]]

\* FrameBuffer.scroll, `for x in range(sx, xend, dx)` of row y.  v holds the
\* state st of the storage and mvs, the moves made so far: [x, y, fx, fy] for
\* the cell set and the cell read
RECURSIVE scroll_for(_, _, _, _, _, _, _, _)
scroll_for(fb, v, x, xend, dx, y, xstep, ystep) ==
    IF (dx > 0 /\ x >= xend) \/ (dx < 0 /\ x <= xend) \/ v.st.err # ""
    THEN v
    ELSE LET col == getpixel(After(fb, v.st), x - xstep, y - ystep)
             mv == [x |-> x, y |-> y, fx |-> x - xstep, fy |-> y - ystep]
         IN  scroll_for(fb, [st |-> SetPixel(fb, v.st, x, y, col), mvs |-> Append(v.mvs, mv)],
                        x + dx, xend, dx, y, xstep, ystep)

\* FrameBuffer.scroll, `while y != yend`
RECURSIVE scroll_while(_, _, _, _, _, _, _, _, _, _)
scroll_while(fb, v, sx, xend, dx, y, yend, dy, xstep, ystep) ==
    IF y = yend \/ v.st.err # ""
    THEN v
    ELSE scroll_while(fb, scroll_for(fb, v, sx, xend, dx, y, xstep, ystep),
                      sx, xend, dx, y + dy, yend, dy, xstep, ystep)

\* FrameBuffer.scroll: [buf, err, mvs]
scroll(fb, xstep, ystep) ==
    LET sx == IF xstep < 0 THEN 0 ELSE fb.width - 1
        xend == IF xstep < 0 THEN fb.width + xstep ELSE xstep - 1
        dx == IF xstep < 0 THEN 1 ELSE -1
        y == IF ystep < 0 THEN 0 ELSE fb.height - 1
        yend == IF ystep < 0 THEN fb.height + ystep ELSE ystep - 1
        dy == IF ystep < 0 THEN 1 ELSE -1
        v == scroll_while(fb, [st |-> Ok(fb.buf), mvs |-> <<>>], sx, xend, dx, y, yend, dy,
                          xstep, ystep)
    IN  IF (xstep < 0 /\ xend <= 0) \/ (xstep >= 0 /\ xend >= sx)
           \/ (ystep < 0 /\ yend <= 0) \/ (ystep >= 0 /\ yend >= y)
        THEN [buf |-> fb.buf, err |-> "", mvs |-> <<>>]
        ELSE [buf |-> v.st.buf, err |-> v.st.err, mvs |-> v.mvs]

\* FrameBuffer._setpixel_checked
setpixel_checked(fb, st, x, y, col, mask) ==
    IF mask # 0 /\ InBounds(fb, x, y) THEN SetPixel(fb, st, x, y, col) ELSE st

\* The four statements of either branch of _draw_ellipse_points, in their
\* order: the bit of mask that enables the quadrant and the signs of x and y
Quadrants ==
    <<[bit |-> 1, sx |-> 1, sy |-> -1], [bit |-> 2, sx |-> -1, sy |-> -1],
      [bit |-> 4, sx |-> -1, sy |-> 1], [bit |-> 8, sx |-> 1, sy |-> 1]>>

\* FrameBuffer._draw_ellipse_points from its statement q on: with any of the
\* bits 0x0F set in mask the spans of the enabled quadrants (from cx, or from
\* cx - x, x + 1 wide); otherwise four _setpixel_checked whose mask arguments
\* mask & 0x01 .. mask & 0x08 are then all 0
RECURSIVE draw_ellipse_points(_, _, _, _, _, _, _, _, _)
draw_ellipse_points(fb, st, cx, cy, x, y, col, mask, q) ==
    IF q > Len(Quadrants)
    THEN st
    ELSE draw_ellipse_points(fb,
             IF BitAnd(mask, 15) # 0
             THEN IF BitAnd(mask, Quadrants[q].bit) # 0
                  THEN FillRect(fb, st, IF Quadrants[q].sx = 1 THEN cx ELSE cx - x,
                                cy + Quadrants[q].sy * y, x + 1, 1, col)
                  ELSE st
             ELSE setpixel_checked(fb, st, cx + Quadrants[q].sx * x, cy + Quadrants[q].sy * y,
                                   col, BitAnd(mask, Quadrants[q].bit)),
             cx, cy, x, y, col, mask, q + 1)

\* One turn of either loop of FrameBuffer.ellipse up to its call of
\* _draw_ellipse_points; steps logs the points (x, y) the call is given
ellipse_draw(fb, k, v) ==
    [v EXCEPT !.st = draw_ellipse_points(fb, v.st, k.cx, k.cy, v.x, v.y, k.col, k.mask, 1),
              !.steps = Append(@, <<v.x, v.y>>)]

\* FrameBuffer.ellipse, `while stoppingx >= stoppingy`.  k holds what the loop
\* does not change; v its variables and the state st of the storage.  A sweep
\* still running after MaxSweep turns is cut off with v.hung set.
RECURSIVE ellipse_sweep_y(_, _, _, _)
ellipse_sweep_y(fb, k, v, turns) ==
    IF v.stoppingx < v.stoppingy \/ v.st.err # ""
    THEN v
    ELSE IF turns >= MaxSweep
    THEN [v EXCEPT !.hung = TRUE]
    ELSE LET ee == v.ee + v.ychange
             dec == 2 * ee + v.xchange > 0
         IN  ellipse_sweep_y(fb, k,
                 [ellipse_draw(fb, k, v) EXCEPT
                           !.y = @ + 1, !.stoppingy = @ + k.two_asquare,
                           !.ychange = @ + k.two_asquare,
                           !.x = IF dec THEN @ - 1 ELSE @,
                           !.stoppingx = IF dec THEN @ - k.two_bsquare ELSE @,
                           !.ee = IF dec THEN ee + v.xchange ELSE ee,
                           !.xchange = IF dec THEN @ + k.two_bsquare ELSE @],
                 turns + 1)

\* FrameBuffer.ellipse, `while stoppingx <= stoppingy`
RECURSIVE ellipse_sweep_x(_, _, _, _)
ellipse_sweep_x(fb, k, v, turns) ==
    IF v.stoppingx > v.stoppingy \/ v.st.err # "" \/ v.hung
    THEN v
    ELSE IF turns >= MaxSweep
    THEN [v EXCEPT !.hung = TRUE]
    ELSE LET ee == v.ee + v.xchange
             dec == 2 * ee + v.ychange > 0
         IN  ellipse_sweep_x(fb, k,
                 [ellipse_draw(fb, k, v) EXCEPT
                           !.x = @ + 1, !.stoppingx = @ + k.two_bsquare,
                           !.xchange = @ + k.two_bsquare,
                           !.y = IF dec THEN @ - 1 ELSE @,
                           !.stoppingy = IF dec THEN @ - k.two_asquare ELSE @,
                           !.ee = IF dec THEN ee + v.ychange ELSE ee,
                           !.ychange = IF dec THEN @ + k.two_asquare ELSE @],
                 turns + 1)

\* What the first loop of FrameBuffer.ellipse starts from
ellipse_first(fb, k, xradius, yradius) ==
    [st |-> Ok(fb.buf), steps |-> <<>>, hung |-> FALSE,
     x |-> xradius, y |-> 0,
     xchange |-> yradius * yradius * (1 - 2 * xradius),
     ychange |-> xradius * xradius, ee |-> 0,
     stoppingx |-> k.two_bsquare * xradius, stoppingy |-> 0]

\* What the second loop starts from, v as the first loop left it
ellipse_second(k, v, xradius, yradius) ==
    [v EXCEPT !.x = 0, !.y = yradius,
              !.xchange = yradius * yradius,
              !.ychange = xradius * xradius * (1 - 2 * yradius), !.ee = 0,
              !.stoppingx = 0, !.stoppingy = k.two_asquare * yradius]

ellipse_done(v) == [buf |-> v.st.buf, err |-> v.st.err, steps |-> v.steps, hung |-> v.hung]

\* mask = 0x0F if fill else 0; mask |= msk & 0x0F
ellipse_mask(filled, msk) == BitOr(IF filled THEN 15 ELSE 0, BitAnd(msk, 15))

ellipse_with(fb, k, xradius, yradius) ==
    ellipse_done(ellipse_sweep_x(fb, k,
        ellipse_second(k, ellipse_sweep_y(fb, k, ellipse_first(fb, k, xradius, yradius), 0),
                       xradius, yradius), 0))

\* FrameBuffer.ellipse: [buf, err, steps, hung]
ellipse(fb, cx, cy, xradius, yradius, col, filled, msk) ==
    ellipse_with(fb, [cx |-> cx, cy |-> cy, col |-> col, mask |-> ellipse_mask(filled, msk),
                      two_asquare |-> 2 * xradius * xradius,
                      two_bsquare |-> 2 * yradius * yradius],
                 xradius, yradius)

\* framebuf/font.py, font_petme128_8x8: 96 glyphs (the codes 32..127) of 8
\* column bytes each, bit 0 the top row.  The table is a lookup resource
\* outside the sources; this one, with a blank glyph for the space, stands
\* for it.
font_petme128_8x8 == [j \in 1..768 |-> IF j <= 8 THEN 0 ELSE ((j - 1) * 37 + 11) % 256]

\* FrameBuffer.text, `while vline_data`: the bits of one column, from row yy on
RECURSIVE text_while(_, _, _, _, _, _, _)
text_while(fb, st, x, y, yy, col, vline_data) ==
    IF vline_data = 0 \/ st.err # ""
    THEN st
    ELSE text_while(fb,
             IF vline_data % 2 = 1 /\ 0 <= y /\ y < fb.height
             THEN SetPixel(fb, st, x, yy, col)
             ELSE st,
             x, y, yy + 1, col, vline_data \div 2)

\* x += 1 after a column that left the storage as st (an exception leaves x)
text_column_done(v, st) == [v EXCEPT !.st = st, !.x = IF st.err = "" THEN @ + 1 ELSE @]

\* FrameBuffer.text, `for vline_data in chr_data`: the columns k .. 7 of the
\* glyph at offset o
RECURSIVE text_columns(_, _, _, _, _, _)
text_columns(fb, v, y, col, o, k) ==
    IF k >= 8 \/ v.st.err # ""
    THEN v
    ELSE text_columns(fb,
             text_column_done(v,
                 IF 0 <= v.x /\ v.x < fb.width
                 THEN text_while(fb, v.st, v.x, y, y, col, font_petme128_8x8[o + k + 1])
                 ELSE v.st),
             y, col, o, k + 1)

\* c = ord(cc); if c < 32 or c > 127: c = 127; o = (c - 32) * 8
text_offset(c) == ((IF c < 32 \/ c > 127 THEN 127 ELSE c) - 32) * 8

\* FrameBuffer.text, `for cc in txt`: the characters j .. of txt (a sequence of
\* character codes); glyphs logs the offset o of every character
RECURSIVE text_for(_, _, _, _, _, _)
text_for(fb, v, txt, j, y, col) ==
    IF j > Len(txt) \/ v.st.err # ""
    THEN v
    ELSE text_for(fb,
             text_columns(fb, [v EXCEPT !.glyphs = Append(@, text_offset(txt[j]))],
                          y, col, text_offset(txt[j]), 0),
             txt, j + 1, y, col)

text_done(v) == [buf |-> v.st.buf, err |-> v.st.err, x |-> v.x, glyphs |-> v.glyphs]

\* FrameBuffer.text: [buf, err, x, glyphs]
text(fb, txt, x, y, col) ==
    text_done(text_for(fb, [st |-> Ok(fb.buf), x |-> x, glyphs |-> <<>>], txt, 1, y, col))

\* The storage and exception of a call's result
line_state(r) == [buf |-> r.buf, err |-> r.err]

\* self.line(x1, y1, x2, y2, col) as the next statement of a method whose
\* statements so far left st
Line(fb, st, x1, y1, x2, y2, col) ==
    IF st.err # "" THEN st ELSE line_state(line(After(fb, st), x1, y1, x2, y2, col))

\* FrameBuffer.poly, outline: `while True` from the vertex (px1, py1) and the
\* index i of the y coordinate of the next one (coords[i - 1] in Python)
RECURSIVE poly_outline(_, _, _, _, _, _, _, _, _)
poly_outline(fb, st, x, y, bufinfo, px1, py1, i, col) ==
    IF i <= 0 \/ st.err # ""
    THEN st
    ELSE poly_outline(fb,
             Line(fb, st, x + px1, y + py1, x + bufinfo[i - 1], y + bufinfo[i], col),
             x, y, bufinfo, bufinfo[i - 1], bufinfo[i], i - 2, col)

\* FrameBuffer.poly, fill: the x coordinate where the edge (px1, py1)-(px2, py2)
\* crosses the scan line row,
\*   (32 * px1 + 32 * (px2 - px1) * (row - py1) / (py2 - py1) + 16) / 32,
\* a float in the code and the fraction num / den here
poly_node(row, px1, py1, px2, py2) ==
    [row |-> row,
     num |-> (32 * px1 + 16) * (py2 - py1) + 32 * (px2 - px1) * (row - py1),
     den |-> 32 * (py2 - py1)]

\* FrameBuffer.poly, fill: one edge of the scan line row, v = [st, nodes]
poly_edge(fb, v, x, y, row, px1, py1, px2, py2, col) ==
    IF py1 # py2 /\ ((py1 > row /\ py2 <= row) \/ (py1 <= row /\ py2 > row))
    THEN [v EXCEPT !.nodes = Append(@, poly_node(row, px1, py1, px2, py2))]
    ELSE IF row = Max(py1, py2)
    THEN [v EXCEPT !.st =
             IF py1 = py2
             THEN Line(fb, @, x + px1, y + py1, x + px2, y + py2, col)
             ELSE setpixel_checked(fb, @, x + (IF py1 < py2 THEN px2 ELSE px1),
                                   y + (IF py1 < py2 THEN py2 ELSE py1), col, 1)]
    ELSE v

\* FrameBuffer.poly, fill: `while True` over the edges of one scan line
RECURSIVE poly_edges(_, _, _, _, _, _, _, _, _, _)
poly_edges(fb, v, x, y, bufinfo, row, px1, py1, i, col) ==
    IF i <= 0 \/ v.st.err # ""
    THEN v
    ELSE poly_edges(fb,
             poly_edge(fb, v, x, y, row, px1, py1, bufinfo[i - 1], bufinfo[i], col),
             x, y, bufinfo, row, bufinfo[i - 1], bufinfo[i], i - 2, col)

\* FrameBuffer.poly, fill: what follows the edges of a scan line that left
\* [st, nodes] with from nodes on the scan line: `if not nodes: continue`, the
\* sort, and the first _fill_rect, whose x and w are floats: nodes[i + 1] is an
\* IndexError when there is one node, and with w >= 1 (the nodes are sorted)
\* every format's _fill_rect raises TypeError before it stores (w >> 1 on
\* GS4_HMSB, range(w) on MONO_HLSB and MVLSB)
poly_spans(v, from) ==
    IF v.st.err # "" \/ Len(v.nodes) = from
    THEN v
    ELSE [v EXCEPT !.st.err = IF Len(v.nodes) = from + 1 THEN "IndexError" ELSE "TypeError"]

\* FrameBuffer.poly, fill: `for row in range(y_min, y_max)`
RECURSIVE poly_rows(_, _, _, _, _, _, _, _)
poly_rows(fb, v, x, y, bufinfo, row, y_max, col) ==
    IF row >= y_max \/ v.st.err # ""
    THEN v
    ELSE poly_rows(fb,
             poly_spans(poly_edges(fb, v, x, y, bufinfo, row, bufinfo[1], bufinfo[2],
                                   Len(bufinfo), col),
                        Len(v.nodes)),
             x, y, bufinfo, row + 1, y_max, col)

\* min and max of bufinfo[1::2]
RECURSIVE poly_y_min(_, _)
poly_y_min(bufinfo, i) ==
    IF i = 2 THEN bufinfo[2] ELSE Min(bufinfo[i], poly_y_min(bufinfo, i - 2))
RECURSIVE poly_y_max(_, _)
poly_y_max(bufinfo, i) ==
    IF i = 2 THEN bufinfo[2] ELSE Max(bufinfo[i], poly_y_max(bufinfo, i - 2))

poly_done(v) == [buf |-> v.st.buf, err |-> v.st.err, nodes |-> v.nodes]

\* FrameBuffer.poly with bufinfo = coords[: n_poly * 2]
poly_bufinfo(fb, x, y, bufinfo, col, filled) ==
    IF bufinfo = <<>>
    THEN [st |-> Ok(fb.buf), nodes |-> <<>>]
    ELSE IF filled
    THEN poly_rows(fb, [st |-> Ok(fb.buf), nodes |-> <<>>], x, y, bufinfo,
                   poly_y_min(bufinfo, Len(bufinfo)), poly_y_max(bufinfo, Len(bufinfo)), col)
    ELSE [st |-> poly_outline(fb, Ok(fb.buf), x, y, bufinfo, bufinfo[1], bufinfo[2],
                              Len(bufinfo), col),
          nodes |-> <<>>]

\* FrameBuffer.poly, coords a sequence of integers: [buf, err, nodes]
poly(fb, x, y, coords, col, filled) ==
    poly_done(poly_bufinfo(fb, x, y, SubSeq(coords, 1, 2 * (Len(coords) \div 2)), col, filled))

(***************************************************************************)
(* The frame buffer's state machine: a zeroed buffer of one of the formats *)
(* is drawn on with pixel() and filled rectangles.                         *)
(***************************************************************************)
\* The values a pixel of the format can hold
Representable(fmt) == IF fmt = GS4_HMSB THEN 0..15 ELSE 0..1
\* The colours the drawing calls of the model pass
DrawColors(fmt) == IF fmt = GS4_HMSB THEN {0, 10} ELSE {0, 1}

\* The rectangles that lie inside the buffer
RectsInside(fb) ==
    {r \in [x : 0..(fb.width - 1), y : 0..(fb.height - 1), w : 1..fb.width, h : 1..fb.height] :
        r.x + r.w <= fb.width /\ r.y + r.h <= fb.height}

Sources(fmt) ==
    {Diagonal(fmt, c) : c \in DrawColors(fmt) \ {0}} \cup {Flat(fmt, c) : c \in DrawColors(fmt) \ {0}}

\* The palette Transform1B._fb2raw blits through: 16 x 1 pixels MONO_HLSB over
\* b"\x00\xFF", 0 for the colours 0..7 and 1 for 8..15
ThresholdPalette == [FrameBuffer(MONO_HLSB, 16, 1) EXCEPT !.buf = <<0, 255>>]
\* A palette in the format fmt that swaps colour 0 and the drawing colour c
\* (every colour but 0 goes to 0)
SwapPalette(fmt, c) ==
    [FrameBuffer(fmt, 16, 1) EXCEPT !.buf[1] = IF fmt = GS4_HMSB THEN 16 * c ELSE c * Pow2(IF fmt = MONO_HLSB THEN 7 ELSE 0)]
Palettes(fmt) ==
    {NoPalette, ThresholdPalette} \cup {SwapPalette(fmt, c) : c \in DrawColors(fmt) \ {0}}
Keys(fmt) == {NoKey, 0, 1} \cup DrawColors(fmt)

FbInit ==
    /\ fbuf \in {FrameBuffer(fmt, FbW, FbH) : fmt \in Formats}
    /\ fop = [op |-> "new", err |-> ""]
    /\ epd = NewEpd("ws_bw", FALSE)
    /\ twin = NoTwin

FbPixel ==
    /\ \E x \in 0..(fbuf.width - 1), y \in 0..(fbuf.height - 1), c \in DrawColors(fbuf.format) :
          LET r == pixel_set(fbuf, x, y, c)
          IN  /\ fbuf' = [fbuf EXCEPT !.buf = r.buf]
              /\ fop' = [op |-> "pixel", err |-> r.err]
    /\ UNCHANGED <<epd, twin>>

FbRect ==
    /\ \E q \in RectsInside(fbuf), c \in DrawColors(fbuf.format), filled \in BOOLEAN :
          LET r == rect(fbuf, q.x, q.y, q.w, q.h, c, filled)
          IN  /\ fbuf' = [fbuf EXCEPT !.buf = r.buf]
              /\ fop' = [op |-> "rect", err |-> r.err]
    /\ UNCHANGED <<epd, twin>>

FbFill ==
    /\ \E c \in DrawColors(fbuf.format) :
          LET r == fill(fbuf, c)
          IN  /\ fbuf' = [fbuf EXCEPT !.buf = r.buf]
              /\ fop' = [op |-> "fill", err |-> r.err]
    /\ UNCHANGED <<epd, twin>>

FbLines ==
    /\ \E x \in 0..(fbuf.width - 1), y \in 0..(fbuf.height - 1), c \in DrawColors(fbuf.format),
          horizontal \in BOOLEAN :
          LET r == IF horizontal
                   THEN hline(fbuf, x, y, fbuf.width - x, c)
                   ELSE vline(fbuf, x, y, fbuf.height - y, c)
          IN  /\ fbuf' = [fbuf EXCEPT !.buf = r.buf]
              /\ fop' = [op |-> IF horizontal THEN "hline" ELSE "vline", err |-> r.err]
    /\ UNCHANGED <<epd, twin>>

\* Endpoints and origins inside the buffer and one step outside it
NearX(fb) == (-1)..fb.width
NearY(fb) == (-1)..fb.height

FbLine ==
    /\ \E x1 \in {0}, y1 \in {0},
          x2 \in NearX(fbuf), y2 \in NearY(fbuf), c \in DrawColors(fbuf.format) :
          LET r == line(fbuf, x1, y1, x2, y2, c)
          IN  /\ fbuf' = [fbuf EXCEPT !.buf = r.buf]
              /\ fop' = [op |-> "line", err |-> r.err]
    /\ UNCHANGED <<epd, twin>>

FbBlit ==
    /\ \E source \in Sources(fbuf.format), x \in {-1, 0, fbuf.width - 1}, y \in {0},
          key \in {NoKey, 0}, palette \in Palettes(fbuf.format) \ {ThresholdPalette} :
          LET r == blit(fbuf, source, x, y, key, palette)
          IN  /\ fbuf' = [fbuf EXCEPT !.buf = r.buf]
              /\ fop' = [op |-> "blit", err |-> r.err]
    /\ UNCHANGED <<epd, twin>>

\* Scroll steps of either sign, up to one more than the buffer is wide and tall
StepsX(fb) == (-(fb.width + 1))..(fb.width + 1)
StepsY(fb) == (-(fb.height + 1))..(fb.height + 1)

FbScroll ==
    /\ \E xstep \in {-1, 0, 1, fbuf.width}, ystep \in {-1, 0, 1} :
          LET r == scroll(fbuf, xstep, ystep)
          IN  /\ fbuf' = [fbuf EXCEPT !.buf = r.buf]
              /\ fop' = [op |-> "scroll", err |-> r.err]
    /\ UNCHANGED <<epd, twin>>

\* Radii and quadrant masks of the ellipses drawn
Radii == 0..2
QuadrantMasks == {0, 1, 8, 15}

\* The ellipses, not both radii 0, whose enabled quadrants lie inside the buffer
EllipsesInside(fb) ==
    {e \in [cx : {0, 1}, cy : {0}, xradius : 0..1, yradius : 0..1,
            filled : BOOLEAN, msk : {0, 8}] :
        /\ e.xradius + e.yradius > 0
        /\ BitAnd(ellipse_mask(e.filled, e.msk), 3) # 0 => e.cy - e.yradius >= 0
        /\ BitAnd(ellipse_mask(e.filled, e.msk), 12) # 0 => e.cy + e.yradius < fb.height
        /\ BitAnd(ellipse_mask(e.filled, e.msk), 6) # 0 => e.cx - e.xradius >= 0
        /\ BitAnd(ellipse_mask(e.filled, e.msk), 9) # 0 => e.cx + e.xradius < fb.width}

FbEllipse ==
    /\ \E e \in EllipsesInside(fbuf), c \in DrawColors(fbuf.format) :
          LET r == ellipse(fbuf, e.cx, e.cy, e.xradius, e.yradius, c, e.filled, e.msk)
          IN  /\ fbuf' = [fbuf EXCEPT !.buf = r.buf]
              /\ fop' = [op |-> "ellipse", err |-> r.err]
    /\ UNCHANGED <<epd, twin>>

\* The strings drawn (sequences of character codes): a space, a letter, a
\* control character before a space
Texts == {<<32>>, <<65>>, <<31, 32>>}

FbText ==
    /\ \E txt \in Texts, x \in {-7, 0}, y \in {-1, 0},
          c \in DrawColors(fbuf.format) :
          LET r == text(fbuf, txt, x, y, c)
          IN  /\ fbuf' = [fbuf EXCEPT !.buf = r.buf]
              /\ fop' = [op |-> "text", err |-> r.err]
    /\ UNCHANGED <<epd, twin>>

\* The vertex lists drawn: none, a point, a segment, a triangle
Polys == {<<>>, <<1, 0>>, <<0, 0, 2, 1>>, <<0, 0, 2, 0, 1, 1>>}

FbPoly ==
    /\ \E coords \in Polys, c \in DrawColors(fbuf.format), filled \in BOOLEAN :
          LET r == poly(fbuf, 0, 0, coords, c, filled)
          IN  /\ fbuf' = [fbuf EXCEPT !.buf = r.buf]
              /\ fop' = [op |-> "poly", err |-> r.err]
    /\ UNCHANGED <<epd, twin>>

FbNext ==
    \/ FbPixel
    \/ FbRect
    \/ FbFill
    \/ FbLines
    \/ FbLine
    \/ FbBlit
    \/ FbScroll
    \/ FbEllipse
    \/ FbText
    \/ FbPoly

SpecFb == FbInit /\ [][FbNext]_vars

(***************************************************************************)
(* The claims about the pixel formats.                                     *)
(***************************************************************************)
Pixels(fb) == (0..(fb.width - 1)) \X (0..(fb.height - 1))

\* C9 as stated: in every format, for every pixel (x, y) of the buffer and
\* every representable v, set(x, y, v) raises nothing, get(x, y) then gives v,
\* and every other pixel reads as before.
C9_set_get ==
    \A p \in Pixels(fbuf), v \in Representable(fbuf.format) :
        LET r == setpixel(fbuf, p[1], p[2], v)
            after == [fbuf EXCEPT !.buf = r.buf]
        IN  /\ r.err = ""
            /\ getpixel(after, p[1], p[2]) = v
            /\ \A q \in Pixels(fbuf) \ {p} : getpixel(after, q[1], q[2]) = getpixel(fbuf, q[1], q[2])

\* C10 as stated: in every format, for every rectangle inside the buffer and
\* every representable v, fill_rect raises nothing and leaves v in every pixel
\* of the rectangle and every pixel outside it as it was.
C10_fill_rect ==
    \A q \in RectsInside(fbuf), v \in Representable(fbuf.format) :
        LET r == fill_rect(fbuf, q.x, q.y, q.w, q.h, v)
            after == [fbuf EXCEPT !.buf = r.buf]
        IN  /\ r.err = ""
            /\ \A p \in Pixels(fbuf) :
                  getpixel(after, p[1], p[2]) =
                      IF q.x <= p[1] /\ p[1] < q.x + q.w /\ q.y <= p[2] /\ p[2] < q.y + q.h
                      THEN v
                      ELSE getpixel(fbuf, p[1], p[2])

\* The mask of a format's bit width
FormatMask(fmt) == IF fmt = GS4_HMSB THEN 15 ELSE 1
\* Colours passed to the drawing calls, some wider than every format
WideValues == {0, 1, 2, 3, 8, 15, 16, 17, 32, 255, 256}
\* C11 as stated: in every format, set and fill_rect store v masked to the bit
\* width of the format (v & 0x0F, v & 1) for every non-negative v, wider ones
\* included, and raise nothing.
C11_masked ==
    \A p \in Pixels(fbuf), v \in WideValues :
        LET r == setpixel(fbuf, p[1], p[2], v)
            q == fill_rect(fbuf, p[1], p[2], 1, 1, v)
        IN  /\ r.err = ""
            /\ getpixel(After(fbuf, r), p[1], p[2]) = BitAnd(v, FormatMask(fbuf.format))
            /\ q.err = ""
            /\ getpixel(After(fbuf, q), p[1], p[2]) = BitAnd(v, FormatMask(fbuf.format))

\* Coordinates inside the buffer and one step and more outside it
AroundX(fb) == (-2)..(fb.width + 1)
AroundY(fb) == (-2)..(fb.height + 1)

\* C12 as stated: outside the buffer pixel(x, y) gives None and pixel(x, y, c)
\* changes nothing; inside it pixel(x, y) gives the stored value and
\* pixel(x, y, c) raises nothing, stores c in that pixel and leaves every other
\* pixel as it was.
C12_pixel ==
    \A x \in AroundX(fbuf), y \in AroundY(fbuf), c \in Representable(fbuf.format) :
        LET r == pixel_set(fbuf, x, y, c)
        IN  IF InBounds(fbuf, x, y)
            THEN /\ pixel_get(fbuf, x, y) = getpixel(fbuf, x, y)
                 /\ r.err = ""
                 /\ pixel_get(After(fbuf, r), x, y) = c
                 /\ \A q \in Pixels(fbuf) \ {<<x, y>>} :
                       getpixel(After(fbuf, r), q[1], q[2]) = getpixel(fbuf, q[1], q[2])
            ELSE /\ pixel_get(fbuf, x, y) = None
                 /\ r = Ok(fbuf.buf)

\* Rectangles inside, across and outside the bounds of the buffer
RectsAround(fb) ==
    [x : AroundX(fb), y : AroundY(fb), w : 0..(fb.width + 2), h : 0..(fb.height + 2)]
InRect(q, p) == q.x <= p[1] /\ p[1] < q.x + q.w /\ q.y <= p[2] /\ p[2] < q.y + q.h
\* The call raised nothing, left the storage at its length and changed no pixel
\* of the buffer outside the rectangle q
Clipped(fb, r, q) ==
    /\ r.err = ""
    /\ Len(r.buf) = Len(fb.buf)
    /\ \A p \in Pixels(fb) : ~InRect(q, p) => getpixel(After(fb, r), p[1], p[2]) = getpixel(fb, p[1], p[2])

\* C13 as stated: rect (filled or outlined), hline, vline, fill and the spans
\* of a filled ellipse, given a rectangle or span that lies partly or wholly
\* outside the buffer, change only pixels of the rectangle (for the ellipse,
\* of the box around it) that are inside the buffer, touch no byte outside
\* the storage and leave the length of the storage as it is.
C13_clipped ==
    \A q \in RectsAround(fbuf), c \in DrawColors(fbuf.format) :
        /\ \A filled \in BOOLEAN : Clipped(fbuf, rect(fbuf, q.x, q.y, q.w, q.h, c, filled), q)
        /\ Clipped(fbuf, hline(fbuf, q.x, q.y, q.w, c), [q EXCEPT !.h = 1])
        /\ Clipped(fbuf, vline(fbuf, q.x, q.y, q.h, c), [q EXCEPT !.w = 1])
        /\ Clipped(fbuf, fill(fbuf, c), [x |-> 0, y |-> 0, w |-> fbuf.width, h |-> fbuf.height])
        /\ \A yradius \in Radii :
              Clipped(fbuf, ellipse(fbuf, q.x, q.y, q.w, yradius, c, TRUE, 15),
                      [x |-> q.x - q.w, y |-> q.y - yradius, w |-> 2 * q.w + 1, h |-> 2 * yradius + 1])

Range(s) == {s[j] : j \in 1..Len(s)}

\* C14 as stated: line raises nothing, comes to (x1, y1) first and (x2, y2)
\* last along points that differ by at most 1 in each coordinate from one to
\* the next, sets every one of them that is inside the buffer (the endpoints
\* with them) and changes nothing else, for shallow and steep lines.
C14_line ==
    \A x1 \in NearX(fbuf), y1 \in NearY(fbuf), x2 \in NearX(fbuf), y2 \in NearY(fbuf),
       c \in DrawColors(fbuf.format) :
        LET r == line(fbuf, x1, y1, x2, y2, c)
        IN  /\ r.err = ""
            /\ Len(r.buf) = Len(fbuf.buf)
            /\ r.pts[1] = <<x1, y1>>
            /\ r.pts[Len(r.pts)] = <<x2, y2>>
            /\ \A j \in 1..(Len(r.pts) - 1) :
                  /\ Abs(r.pts[j + 1][1] - r.pts[j][1]) <= 1
                  /\ Abs(r.pts[j + 1][2] - r.pts[j][2]) <= 1
            /\ \A p \in Pixels(fbuf) :
                  getpixel(After(fbuf, r), p[1], p[2]) =
                      IF p \in Range(r.pts) THEN c ELSE getpixel(fbuf, p[1], p[2])

\* Origins that put a source across every edge of the destination and off it
BlitX(fb) == (-(fb.width + 2))..(fb.width + 1)
BlitY(fb) == (-(fb.height + 2))..(fb.height + 1)
\* The colour blit has for destination pixel p: the source pixel under it,
\* through the palette if there is one
Mapped(source, palette, x, y, p) ==
    IF palette # NoPalette
    THEN getpixel(palette, getpixel(source, p[1] - x, p[2] - y), 0)
    ELSE getpixel(source, p[1] - x, p[2] - y)
\* The destination pixels under the source placed at (x, y)
Overlap(fb, source, x, y) == {p \in Pixels(fb) : InBounds(source, p[1] - x, p[2] - y)}

\* C15 as stated: blit with key K leaves every destination pixel whose source
\* colour (after the palette, if one is given) is K as it was; blit with no
\* palette and no key raises nothing and gives every destination pixel under
\* the source the colour of its source pixel.
C15_key ==
    \A source \in Sources(fbuf.format), x \in BlitX(fbuf), y \in BlitY(fbuf),
       key \in Keys(fbuf.format), palette \in Palettes(fbuf.format) :
        LET r == blit(fbuf, source, x, y, key, palette)
        IN  /\ \A p \in Overlap(fbuf, source, x, y) :
                  Mapped(source, palette, x, y, p) = key =>
                      getpixel(After(fbuf, r), p[1], p[2]) = getpixel(fbuf, p[1], p[2])
            /\ (key = NoKey /\ palette = NoPalette) =>
                  /\ r.err = ""
                  /\ \A p \in Overlap(fbuf, source, x, y) :
                        getpixel(After(fbuf, r), p[1], p[2]) = getpixel(source, p[1] - x, p[2] - y)

\* C16 as stated: blit(source, x, y), for negative origins too, raises nothing,
\* gives destination pixel (dx, dy) under the source the colour of source pixel
\* (dx - x, dy - y) and leaves every other pixel as it was; it reads no pixel
\* outside the source, sets none outside the destination, and changes nothing
\* when the source lies off the destination.
C16_overlap ==
    \A source \in Sources(fbuf.format), x \in BlitX(fbuf), y \in BlitY(fbuf) :
        LET r == blit(fbuf, source, x, y, NoKey, NoPalette)
        IN  /\ r.err = ""
            /\ Len(r.buf) = Len(fbuf.buf)
            /\ \A p \in Pixels(fbuf) :
                  getpixel(After(fbuf, r), p[1], p[2]) =
                      IF p \in Overlap(fbuf, source, x, y)
                      THEN getpixel(source, p[1] - x, p[2] - y)
                      ELSE getpixel(fbuf, p[1], p[2])
            /\ \A j \in 1..Len(r.cps) :
                  /\ InBounds(source, r.cps[j].sx, r.cps[j].sy)
                  /\ InBounds(fbuf, r.cps[j].dx, r.cps[j].dy)
                  /\ r.cps[j].sx = r.cps[j].dx - x /\ r.cps[j].sy = r.cps[j].dy - y
            /\ Overlap(fbuf, source, x, y) = {} => r.buf = fbuf.buf /\ r.cps = <<>>

\* C17 as stated: scroll(dx, dy), for steps of either sign, raises nothing;
\* afterwards every cell (x, y) whose source cell (x - dx, y - dy) is inside
\* the buffer holds what that cell held before the call and every other cell
\* is as it was; no cell outside the buffer is read or set; with |dx| >= width
\* or |dy| >= height the buffer is unchanged.
C17_scroll ==
    \A xstep \in StepsX(fbuf), ystep \in StepsY(fbuf) :
        LET r == scroll(fbuf, xstep, ystep)
        IN  /\ r.err = ""
            /\ Len(r.buf) = Len(fbuf.buf)
            /\ \A p \in Pixels(fbuf) :
                  getpixel(After(fbuf, r), p[1], p[2]) =
                      IF InBounds(fbuf, p[1] - xstep, p[2] - ystep)
                      THEN getpixel(fbuf, p[1] - xstep, p[2] - ystep)
                      ELSE getpixel(fbuf, p[1], p[2])
            /\ \A j \in 1..Len(r.mvs) :
                  /\ InBounds(fbuf, r.mvs[j].x, r.mvs[j].y)
                  /\ InBounds(fbuf, r.mvs[j].fx, r.mvs[j].fy)
            /\ (Abs(xstep) >= fbuf.width \/ Abs(ystep) >= fbuf.height) => r.buf = fbuf.buf


\* The points the midpoint steps of an ellipse give: a step (x, y) gives, in
\* every quadrant that msk enables, the point (cx +- x, cy +- y)
EllipseBoundary(cx, cy, steps, msk) ==
    {<<cx + Quadrants[q].sx * steps[j][1], cy + Quadrants[q].sy * steps[j][2]>> :
        q \in {n \in 1..Len(Quadrants) : BitAnd(msk, Quadrants[n].bit) # 0}, j \in 1..Len(steps)}

\* C18: ellipse with fill = false raises nothing and changes no pixel but the
\* boundary points its midpoint steps give in the quadrants msk enables: no
\* interior pixel, no span from the centre column to the boundary.
C18_outline ==
    \A cx \in 0..(fbuf.width - 1), cy \in 0..(fbuf.height - 1), xradius \in Radii, yradius \in Radii,
       c \in DrawColors(fbuf.format), msk \in QuadrantMasks :
        LET r == ellipse(fbuf, cx, cy, xradius, yradius, c, FALSE, msk)
        IN  /\ r.err = ""
            /\ \A p \in Pixels(fbuf) :
                  p \notin EllipseBoundary(cx, cy, r.steps, msk) =>
                      getpixel(After(fbuf, r), p[1], p[2]) = getpixel(fbuf, p[1], p[2])


\* Character codes below, at and above the two ends of the font, and the
\* strings of up to two of them
Codes == {0, 31, 32, 65, 127, 128, 255}
Strings == {<<>>} \cup {<<a>> : a \in Codes} \cup {<<a, b>> : a \in Codes, b \in Codes}
clamp(c, lo, hi) == IF c < lo THEN lo ELSE IF c > hi THEN hi ELSE c

\* C19: text takes for every character code c the glyph at the font offset
\* (clamp(c, 32, 127) - 32) * 8, a code below 32 the glyph of code 32 and a
\* code above 127 the glyph of code 127, and leaves the drawing column 8
\* further per character, whether its columns are inside the horizontal bounds
\* or not.
C19_glyphs ==
    \A txt \in Strings, x \in {-8, 0, fbuf.width}, y \in {-8, fbuf.height}, c \in DrawColors(fbuf.format) :
        LET r == text(fbuf, txt, x, y, c)
        IN  /\ r.glyphs = [j \in 1..Len(txt) |-> (clamp(txt[j], 32, 127) - 32) * 8]
            /\ r.x = x + 8 * Len(txt)


\* The rectangles around the buffer that have no area
RectsEmpty(fb) ==
    {q \in [x : AroundX(fb), y : AroundY(fb), w : (-1)..fb.width, h : (-1)..fb.height] :
        q.w <= 0 \/ q.h <= 0}
\* The call raised nothing and left the storage as it was
Untouched(fb, r) == r.err = "" /\ r.buf = fb.buf
\* The source placed at (x, y) has no pixel over the buffer
Outside(fb, source, x, y) ==
    x >= fb.width \/ y >= fb.height \/ x + source.width <= 0 \/ y + source.height <= 0

\* C20: rect with w <= 0 or h <= 0, filled and outlined, poly with an empty
\* vertex list, and blit of a source that lies wholly outside the buffer each
\* raise nothing and leave every byte of the buffer as it was.
C20_noop ==
    \A c \in DrawColors(fbuf.format) :
        /\ \A q \in RectsEmpty(fbuf), filled \in BOOLEAN :
              Untouched(fbuf, rect(fbuf, q.x, q.y, q.w, q.h, c, filled))
        /\ \A x \in AroundX(fbuf), y \in AroundY(fbuf), filled \in BOOLEAN :
              Untouched(fbuf, poly(fbuf, x, y, <<>>, c, filled))
        /\ \A source \in Sources(fbuf.format), x \in BlitX(fbuf), y \in BlitY(fbuf),
              key \in Keys(fbuf.format), palette \in Palettes(fbuf.format) :
              Outside(fbuf, source, x, y) => Untouched(fbuf, blit(fbuf, source, x, y, key, palette))


\* The polygons the fill is tried on: a flat one, a slanted edge, a triangle
\* and a rectangle
FilledPolys == {<<0, 0, 2, 0>>, <<0, 0, 2, 1>>, <<0, 0, 2, 0, 1, 1>>, <<0, 0, 0, 1, 2, 1, 2, 0>>}
\* The edges of the closed walk over coords, as <<px1, py1, px2, py2>>
PolyEdges(coords) ==
    LET n == Len(coords) \div 2
    IN  {<<coords[2 * j - 1], coords[2 * j], coords[2 * (j % n) + 1], coords[2 * (j % n) + 2]>> : j \in 1..n}
\* The edge strictly straddles the scan line
Straddles(e, row) == (e[2] <= row /\ row < e[4]) \/ (e[4] <= row /\ row < e[2])
\* The intercepts logged on the scan line, and the order of two of them
NodesOn(nodes, row) == {j \in 1..Len(nodes) : nodes[j].row = row}
NodeBefore(n, m) == n.num * n.den * m.den * m.den <= m.num * m.den * n.den * n.den
\* The pixel column px lies in an inclusive span between the (2k-1)-th and the
\* 2k-th intercept of the scan line in ascending order
InSpan(nodes, row, px) ==
    \E a \in NodesOn(nodes, row), b \in NodesOn(nodes, row) :
        /\ Cardinality({j \in NodesOn(nodes, row) : ~NodeBefore(nodes[a], nodes[j])}) % 2 = 0
        /\ Cardinality({j \in NodesOn(nodes, row) : ~NodeBefore(nodes[b], nodes[j])}) % 2 = 1
        /\ nodes[a].num * nodes[a].den <= px * nodes[a].den * nodes[a].den
        /\ px * nodes[b].den * nodes[b].den <= nodes[b].num * nodes[b].den

\* C21: poly with fill = true raises nothing, handles every scan line from the
\* smallest to the largest vertex y inclusive (a flat polygon's only row is
\* drawn), takes one intercept per edge that strictly straddles the row, an
\* even number per row, and sets every pixel of the inclusive spans between
\* successive pairs of the sorted intercepts.
C21_fill ==
    \A coords \in FilledPolys, c \in DrawColors(fbuf.format) \ {0} :
        LET r == poly(fbuf, 0, 0, coords, c, TRUE)
            y_min == poly_y_min(coords, Len(coords))
            y_max == poly_y_max(coords, Len(coords))
        IN  /\ r.err = ""
            /\ \A row \in y_min..y_max :
                  /\ Cardinality(NodesOn(r.nodes, row))
                       = Cardinality({e \in PolyEdges(coords) : Straddles(e, row)})
                  /\ Cardinality(NodesOn(r.nodes, row)) % 2 = 0
                  /\ \A px \in 0..(fbuf.width - 1) :
                        InSpan(r.nodes, row, px) /\ row < fbuf.height
                            => getpixel(After(fbuf, r), px, row) = c
            /\ y_min = y_max => \A px \in 0..2 : getpixel(After(fbuf, r), px, y_min) = c


\* C27: ellipse comes to an end for every pair of non-negative radii, the
\* degenerate ones (xradius = 0, yradius = 0, both 0) included: neither of
\* its two loops is still running after MaxSweep turns, whatever the centre,
\* the fill flag and the quadrant mask.
C27_terminates ==
    \A cx \in 0..(fbuf.width - 1), cy \in 0..(fbuf.height - 1), xradius \in Radii, yradius \in Radii,
       c \in DrawColors(fbuf.format), filled \in BOOLEAN, msk \in QuadrantMasks :
        ~ellipse(fbuf, cx, cy, xradius, yradius, c, filled, msk).hung


\* C28: text writes no pixel outside the buffer for any string and origin:
\* the glyph bits that fall outside are skipped, so the call raises nothing,
\* the storage keeps its length, and a pixel of the buffer either keeps its
\* value or takes the colour.
C28_text_inside ==
    \A txt \in {<<32>>, <<65>>, <<65, 127>>}, x \in {-7, 0, fbuf.width - 1}, y \in (-1)..fbuf.height,
       c \in DrawColors(fbuf.format) :
        LET r == text(fbuf, txt, x, y, c)
        IN  /\ r.err = ""
            /\ Len(r.buf) = Len(fbuf.buf)
            /\ \A p \in Pixels(fbuf) :
                  getpixel(After(fbuf, r), p[1], p[2]) \in {getpixel(fbuf, p[1], p[2]), c}


(***************************************************************************)
(* Orientation and raw conversion: IEpd's rotate and transposed            *)
(* properties, its frame buffer, and Transform1B / Transform2B, which turn *)
(* the GS4_HMSB frame buffer into the one or two bit planes of the panel.  *)
(* Here epd holds the fields of the IEpd object the conversion reads, fbuf *)
(* is self._fb (NoFb for None; its storage is self._buf) and fop the last  *)
(* call.                                                                   *)
(***************************************************************************)
HalfRows == 1       \* bound: height of the panel in pairs of rows

\* IEpd.parameters(width, height, colors) and IEpd.__init__: cls._w, cls._h,
\* cls._fb_len, self._rotate = 0, self.width = self._w, self.height = self._h
IEpd(drv, w, h, white) ==
    [drv |-> drv, w |-> w, h |-> h, fb_len |-> (w * h + 1) \div 2, white |-> white,
     rotate |-> 0, width |-> w, height |-> h]

\* IEpd.transposed (getter)
transposed(e) == e.rotate \in {90, 270}

\* IEpd._renewfb with self._fb = fb: the storage is allocated once and kept
renewfb(e, fb) ==
    LET l == (e.width * e.height + 1) \div 2
        new == [FrameBuffer(GS4_HMSB, e.width, e.height) EXCEPT
                   !.buf = IF fb = NoFb THEN [j \in 1..l |-> 0] ELSE fb.buf]
        st == fill(new, e.white)
    IN  [fb |-> After(new, st), err |-> st.err]

\* What follows the assignments of a setter: `if self._fb is not None: self._renewfb()`
setter_done(e, fb) ==
    IF fb = NoFb THEN [epd |-> e, fb |-> fb, err |-> ""] ELSE [epd |-> e] @@ renewfb(e, fb)

\* IEpd.rotate (setter) without `if self._fb is not None: self._renewfb()`
rotate_set_no_renew(e, fb, value) ==
    LET r == (((value + 45) \div 90) * 90) % 360
        t == r \in {90, 270}
    IN  [epd |-> [e EXCEPT !.rotate = r,
                           !.width = IF t THEN e.h ELSE e.w,
                           !.height = IF t THEN e.w ELSE e.h],
         fb |-> fb, err |-> ""]

\* IEpd.rotate (setter)
rotate_set(e, fb, value) ==
    LET r == (((value + 45) \div 90) * 90) % 360
        t == r \in {90, 270}
    IN  setter_done([e EXCEPT !.rotate = r,
                              !.width = IF t THEN e.h ELSE e.w,
                              !.height = IF t THEN e.w ELSE e.h], fb)

\* IEpd.transposed (setter)
transposed_set(e, fb, value) ==
    setter_done([e EXCEPT !.rotate = IF value THEN 90 ELSE 0,
                          !.width = IF value THEN e.h ELSE e.w,
                          !.height = IF value THEN e.w ELSE e.h], fb)

\* IEpd._mkfb
mkfb(e, fb) == IF fb = NoFb THEN renewfb(e, fb) ELSE [fb |-> fb, err |-> ""]

\* FrameBuffer(raw_buf, width, height, MONO_HLSB) over a zeroed raw_buf of n bytes
RawPlane(n, width, height) ==
    [FrameBuffer(MONO_HLSB, width, height) EXCEPT !.buf = [j \in 1..n |-> 0]]

\* FrameBuffer(bytearray(pal), 16, 1, MONO_HLSB)
Palette(pal) == [FrameBuffer(MONO_HLSB, 16, 1) EXCEPT !.buf = pal]

\* Transform1B._fb2raw: the pixel px_i is called for in the loops of the
\* rotations 90, 180 and the rest, for the output pixel (x, y)
Transform1B_px_i(e, x, y) ==
    IF e.rotate = 90 THEN <<y, (e.height - 1) - x>>
    ELSE IF e.rotate = 180 THEN <<(e.width - 1) - x, (e.height - 1) - y>>
    ELSE <<(e.width - 1) - y, x>>

\* Transform1B._fb2raw, a rotated branch: `for y in range(self.width): for x
\* in range(self.height): px_o(x, y, px_i(...) >> 3)` from its n-th turn on;
\* px_i gives None outside the frame buffer, and None >> 3 is a TypeError
RECURSIVE Transform1B_for(_, _, _, _, _)
Transform1B_for(e, fb, out, st, n) ==
    IF n >= e.width * e.height \/ st.err # ""
    THEN st
    ELSE LET x == n % e.height
             y == n \div e.height
             s == Transform1B_px_i(e, x, y)
             p == pixel_get(fb, s[1], s[2])
         IN  Transform1B_for(e, fb, out,
                 IF ~InBounds(fb, s[1], s[2])
                 THEN [st EXCEPT !.err = "TypeError"]
                 ELSE pixel_set(After(out, st), x, y, Shr(p, 3)),
                 n + 1)

\* Transform1B._fb2raw: [raw, err]
Transform1B_fb2raw(e, fb) ==
    LET n == e.fb_len \div 4
        r == IF e.rotate = 0
             THEN blit(RawPlane(n, e.width, e.height), fb, 0, 0, -1, Palette(<<0, 255>>))
             ELSE Transform1B_for(e, fb, RawPlane(n, e.height, e.width),
                                  Ok([j \in 1..n |-> 0]), 0)
    IN  [raw |-> r.buf, err |-> r.err]

\* Transform2B._fb2raw_com: the pixel px_i is called for in the loops of the
\* rotations 90, 180 and the rest, for the output pixel (x, y)
Transform2B_px_i(e, x, y) ==
    IF e.rotate = 90 THEN <<(e.h - 1) - y, x>>
    ELSE IF e.rotate = 180 THEN <<(e.w - 1) - x, (e.h - 1) - y>>
    ELSE <<y, (e.w - 1) - x>>

\* Transform2B._fb2raw_com, a rotated branch, for one of its two planes:
\* `for y in range(self._h): for x in range(self._w): p = px_i(...);
\* px_o(x, y, pal(p, 0))` from its n-th turn on; pal(None, 0) is a TypeError
RECURSIVE Transform2B_for(_, _, _, _, _, _)
Transform2B_for(e, fb, out, pal, st, n) ==
    IF n >= e.w * e.h \/ st.err # ""
    THEN st
    ELSE LET x == n % e.w
             y == n \div e.w
             s == Transform2B_px_i(e, x, y)
             p == pixel_get(fb, s[1], s[2])
         IN  Transform2B_for(e, fb, out, pal,
                 IF ~InBounds(fb, s[1], s[2])
                 THEN [st EXCEPT !.err = "TypeError"]
                 ELSE pixel_set(After(out, st), x, y, pixel_get(pal, p, 0)),
                 n + 1)

\* Transform2B._fb2raw_com, one plane of buf_len bytes through its palette
Transform2B_plane(e, fb, pal) ==
    LET n == e.fb_len \div 4
    IN  IF e.rotate = 0
        THEN blit(RawPlane(n, e.width, e.height), fb, 0, 0, -1, Palette(pal))
        ELSE Transform2B_for(e, fb, RawPlane(n, e.w, e.h), Palette(pal), Ok([j \in 1..n |-> 0]), 0)

\* Transform2B._fb2raw_com with its second plane written through pal1
Transform2B_fb2raw_com_one_table(e, fb, pal1, pal2) ==
    LET n == e.fb_len \div 4
        p1 == Transform2B_plane(e, fb, pal1)
    IN  [raw |-> [j \in 1..(e.fb_len \div 2) |->
                     IF j <= n THEN p1.buf[j] ELSE IF j <= 2 * n THEN p1.buf[j - n] ELSE 0],
         err |-> p1.err]

\* Transform2B._fb2raw_com: raw_buf of fb_len // 2 bytes, raw_buf[:buf_len]
\* written through pal1 and raw_buf[buf_len:] through pal2: [raw, err]
Transform2B_fb2raw_com(e, fb, pal1, pal2) ==
    LET n == e.fb_len \div 4
        p1 == Transform2B_plane(e, fb, pal1)
        p2 == Transform2B_plane(e, fb, pal2)
    IN  [raw |-> [j \in 1..(e.fb_len \div 2) |->
                     IF j <= n THEN p1.buf[j] ELSE IF j <= 2 * n THEN p2.buf[j - n] ELSE 0],
         err |-> IF p1.err # "" THEN p1.err ELSE p2.err]

\* Transform2B._fb2raw_gs and Transform2B._fb2raw_3c
Transform2B_fb2raw_gs(e, fb) == Transform2B_fb2raw_com(e, fb, <<0, 255>>, <<15, 15>>)
Transform2B_fb2raw_3c(e, fb) == Transform2B_fb2raw_com(e, fb, <<64, 0>>, <<192, 0>>)

\* self._fb2raw() as the driver decorators of IEpd bind it
IEpd_fb2raw(e, fb) ==
    CASE e.drv = "ws_bw" -> Transform1B_fb2raw(e, fb)
      [] e.drv = "ws_3c" -> Transform2B_fb2raw_3c(e, fb)
      [] e.drv = "despi_c02" -> Transform2B_fb2raw_gs(e, fb)


(***************************************************************************)
(* The orientation state machine: a panel is created, its rotate and       *)
(* transposed properties are assigned, its frame buffer is read and drawn  *)
(* on, and the frame buffer is converted to the raw planes.                *)
(***************************************************************************)
\* The panel: an oblong one, a whole number of bytes wide and an even number
\* of rows high as the panels of the library are (400 x 300, 200 x 200,
\* 800 x 480)
Panels == {<<PanelW, 2 * HalfRows>>}
\* color["white"] of the panel classes: 1 on the three-colour panel
\* (epd_ws420_3c2_red), 15 on the others
White(drv) == IF drv = "ws_3c" THEN 1 ELSE 15
\* The colours drawn: the panel's own on the three-colour panel, and values
\* on both sides of the thresholds 4 and 8 on the others
RotColors(drv) == IF drv = "ws_3c" THEN {0, 1, 2} ELSE {0, 5, 15}
\* The pixels drawn on: two neighbours in the first row and the last pixel
Marks(fb) == {<<0, 0>>, <<1, 0>>, <<fb.width - 1, fb.height - 1>>}
\* The values assigned to rotate: the four angles, values next to the
\* rounding boundaries, a negative one and one beyond a full turn
RotateValues == {-90, 0, 44, 45, 90, 134, 180, 270, 315, 450}

RotInit ==
    /\ epd \in {IEpd(drv, p[1], p[2], White(drv)) : drv \in Drivers, p \in Panels}
    /\ twin = NoTwin
    /\ fbuf = NoFb
    /\ fop = [op |-> "new", err |-> "", arg |-> 0, raw |-> <<>>]

\* A task reads the fb property: IEpd._mkfb
RotMkFb ==
    /\ fbuf = NoFb
    /\ LET r == mkfb(epd, fbuf)
       IN  /\ fbuf' = r.fb
           /\ fop' = [op |-> "fb", err |-> r.err, arg |-> 0, raw |-> <<>>]
    /\ UNCHANGED <<epd, twin>>

\* epd.rotate = value
RotRotate ==
    /\ \E value \in RotateValues :
          LET r == rotate_set(epd, fbuf, value)
          IN  /\ epd' = r.epd
              /\ fbuf' = r.fb
              /\ fop' = [op |-> "rotate", err |-> r.err, arg |-> value, raw |-> <<>>]
    /\ UNCHANGED twin

\* epd.transposed = value
RotTransposed ==
    /\ \E value \in BOOLEAN :
          LET r == transposed_set(epd, fbuf, value)
          IN  /\ epd' = r.epd
              /\ fbuf' = r.fb
              /\ fop' = [op |-> "transposed", err |-> r.err, arg |-> BoolInt(value), raw |-> <<>>]
    /\ UNCHANGED twin

\* epd.fb.pixel(x, y, c)
RotPixel ==
    /\ fbuf # NoFb
    /\ \E p \in Marks(fbuf), c \in RotColors(epd.drv) :
          LET r == pixel_set(fbuf, p[1], p[2], c)
          IN  /\ fbuf' = After(fbuf, r)
              /\ fop' = [op |-> "pixel", err |-> r.err, arg |-> c, raw |-> <<>>]
    /\ UNCHANGED <<epd, twin>>

\* self._fb2raw(), as _preflush calls it when the frame buffer exists
RotConvert ==
    /\ fbuf # NoFb
    /\ LET r == IEpd_fb2raw(epd, fbuf)
       IN  fop' = [op |-> "fb2raw", err |-> r.err, arg |-> 0,
                   raw |-> IF r.err = "" THEN r.raw ELSE <<>>]
    /\ UNCHANGED <<epd, twin, fbuf>>

RotNext ==
    \/ RotMkFb
    \/ RotRotate
    \/ RotTransposed
    \/ RotPixel
    \/ RotConvert

SpecRot == RotInit /\ [][RotNext]_vars


\* The pixel of the frame buffer shown at the native pixel (x, y) of a panel
\* of w x h pixels when the image is turned by the angle, one way (dir = 1)
\* or the other (dir = -1)
Turned(w, h, angle, dir, x, y) ==
    IF angle = 180 THEN <<(w - 1) - x, (h - 1) - y>>
    ELSE IF (angle = 90) = (dir = 1) THEN <<(h - 1) - y, x>> ELSE <<y, (w - 1) - x>>
\* The turned image as a frame buffer in the native orientation
TurnedImage(e, fb, dir) ==
    LET v(n) == LET s == Turned(e.w, e.h, e.rotate, dir, n % e.w, n \div e.w)
                IN  getpixel(fb, s[1], s[2])
    IN  [FrameBuffer(GS4_HMSB, e.w, e.h) EXCEPT
            !.buf = [j \in 1..((e.w * e.h) \div 2) |-> 16 * v(2 * (j - 1)) + v(2 * (j - 1) + 1)]]
\* The driver without rotation
Native(e) == [e EXCEPT !.rotate = 0, !.width = e.w, !.height = e.h]
\* Every pixel has the value of its mirror image through the centre
PointSymmetric(fb) ==
    \A p \in Pixels(fb) :
        getpixel(fb, p[1], p[2]) = getpixel(fb, (fb.width - 1) - p[1], (fb.height - 1) - p[2])

\* C22: at the rotations 90, 180 and 270 the raw conversion of every driver
\* raises nothing (every source pixel it reads is inside the frame buffer),
\* and its output is, bit for bit, what the conversion without rotation
\* gives for the image turned by that angle; at 180 a point-symmetric frame
\* buffer converts to the bytes it converts to without rotation.
C22_rotated ==
    (fbuf # NoFb /\ epd.rotate # 0) =>
        LET r == IEpd_fb2raw(epd, fbuf)
        IN  /\ r.err = ""
            /\ \E dir \in {1, -1} :
                  r.raw = IEpd_fb2raw(Native(epd), TurnedImage(epd, fbuf, dir)).raw
            /\ (epd.rotate = 180 /\ PointSymmetric(fbuf)) =>
                  r.raw = IEpd_fb2raw(Native(epd), fbuf).raw


\* The frame buffer with every pixel at the value v
Uniform(fb, v) == [fb EXCEPT !.buf = [j \in DOMAIN fb.buf |-> 16 * v + v]]
\* Bit (x, y) of a raw plane of the panel
PlaneBit(e, raw, x, y) == getpixel([RawPlane(Len(raw), e.w, e.h) EXCEPT !.buf = raw], x, y)
\* The native pixels of the panel
NativePixels(e) == (0..(e.w - 1)) \X (0..(e.h - 1))

\* C23: the one-plane conversion raises nothing and gives every output bit
\* as v >> 3 of the 4-bit value v of the source pixel it stands for, without
\* rotation (the blit through the palette) and with it (the pixel loops)
\* alike; a frame buffer whose values are all below 8, such as all 5,
\* converts to bytes that are all zero.
C23_threshold ==
    (fbuf # NoFb /\ epd.drv = "ws_bw") =>
        LET r == Transform1B_fb2raw(epd, fbuf)
            dark == Transform1B_fb2raw(epd, Uniform(fbuf, 5))
        IN  /\ r.err = ""
            /\ \A p \in NativePixels(epd) :
                  LET s == IF epd.rotate = 0 THEN p ELSE Transform1B_px_i(epd, p[1], p[2])
                  IN  PlaneBit(epd, r.raw, p[1], p[2]) = Shr(getpixel(fbuf, s[1], s[2]), 3)
            /\ dark.err = ""
            /\ \A j \in DOMAIN dark.raw : dark.raw[j] = 0


\* The k-th plane of n bytes of a raw buffer
Plane(raw, n, k) == [j \in 1..n |-> raw[(k - 1) * n + j]]
\* The lookup table of 16 entries a palette of two bytes stands for: entry v
\* is bit 7 - v % 8 of byte v // 8
Table(pal) == [v \in 0..15 |-> Shr(pal[(v \div 8) + 1], 7 - (v % 8)) % 2]
\* The two tables of a two-plane driver: b"\x00\xFF", b"\x0F\x0F" for the
\* grey scale and b"@\x00", b"\xC0\x00" for the three colours
Tables(drv) ==
    IF drv = "despi_c02"
    THEN <<Table(<<0, 255>>), Table(<<15, 15>>)>>
    ELSE <<Table(<<64, 0>>), Table(<<192, 0>>)>>
\* The conversion of the frame buffer gives two planes of n bytes each, and
\* bit (x, y) of plane k is the k-th table's entry for the source pixel
TwoPlanes(e, fb, r, n) ==
    /\ r.err = ""
    /\ Len(r.raw) = 2 * n
    /\ \A k \in 1..2, p \in NativePixels(e) :
          LET s == IF e.rotate = 0 THEN p ELSE Transform2B_px_i(e, p[1], p[2])
          IN  PlaneBit(e, Plane(r.raw, n, k), p[1], p[2])
                = Tables(e.drv)[k][getpixel(fb, s[1], s[2])]

\* C24: the two-plane conversion gives two planes of equal length, the first
\* in the first half of the raw buffer and the second in the second half;
\* every bit of plane k is the k-th lookup table applied to the 4-bit value of
\* its source pixel, by the same tables without rotation and with it; and the
\* conversion leaves the frame buffer as it was.
C24_planes ==
    /\ [](fbuf # NoFb /\ epd.drv # "ws_bw"
            => TwoPlanes(epd, fbuf, IEpd_fb2raw(epd, fbuf), epd.fb_len \div 4))
    /\ [][fop'.op = "fb2raw" /\ epd.drv # "ws_bw" => fbuf' = fbuf /\ fop'.err = ""]_vars

\* A two-plane conversion ran at a rotation on a frame buffer that holds a
\* value the two tables tell apart, and gave two different planes
C24_witness ==
    /\ fop.op = "fb2raw" /\ fop.err = "" /\ epd.drv # "ws_bw" /\ epd.rotate \in {90, 180, 270}
    /\ \E p \in Pixels(fbuf) :
          Tables(epd.drv)[1][getpixel(fbuf, p[1], p[2])] # Tables(epd.drv)[2][getpixel(fbuf, p[1], p[2])]
    /\ Plane(fop.raw, epd.fb_len \div 4, 1) # Plane(fop.raw, epd.fb_len \div 4, 2)


\* C29: at each of the rotations 90, 180 and 270 Transform1B and Transform2B
\* turn the image the same way: of one frame buffer, the plane Transform1B
\* gives is the first plane Transform2B gives through the same threshold
\* table b"\x00\xFF".
C29_same_direction ==
    (fbuf # NoFb /\ epd.rotate # 0) =>
        LET one == Transform1B_fb2raw(epd, fbuf)
            two == Transform2B_fb2raw_gs(epd, fbuf)
        IN  /\ one.err = "" /\ two.err = ""
            /\ one.raw = Plane(two.raw, epd.fb_len \div 4, 1)


\* The distance of two angles on the circle, and the valid angles nearest to
\* a value
AngleDistance(a, b) == Min((a - b) % 360, (b - a) % 360)
Nearest(value) ==
    {a \in {0, 90, 180, 270} :
        \A b \in {0, 90, 180, 270} : AngleDistance(value, a) <= AngleDistance(value, b)}

CmdWrites(L) == SelectSeq(L, LAMBDA ev : ev.op = "wr" /\ ev.what = "cmd")

\* The command instructions of a driver's flush before instruction ip
CmdsBefore(e, k) ==
    SelectSeq(SubSeq(Prog(e.drv, e.fl[k].kind), 1, e.fl[k].ip - 1), LAMBDA ins : ins.op = "cmd")

\* The step in which the wait of flight 1 gives up
TimesOut(e, e2) == Len(e.fl) = 1 /\ Idle(e2) /\ e2.res = "timeout"

Aborted(e, e2) ==
    /\ InsAt(e, 1).op = "wait"
    /\ e.fl[1].polls >= InsAt(e, 1).timeout * PollsPerTimeout
    /\ e2.log = e.log
    /\ e2.pins = e.pins
    /\ e2.pins.cs = 1 /\ e2.pins.rst = 1
    /\ Len(CmdWrites(e2.log)) = Len(CmdsBefore(e, 1))
    /\ \A j \in 1..Len(CmdsBefore(e, 1)) : CmdWrites(e2.log)[j].bytes = <<CmdsBefore(e, 1)[j].c>>
    /\ \A j \in 1..Len(e2.log) : Rank(e2.log[j]) <= Rank(InsAt(e, 1))
    /\ InsAt(e, 1).ph # "off" => \A j \in 1..Len(e2.log) : e2.log[j].ph # "off"

\* Nothing is written between the abort and the next flush call
Silent(e, e2) == (Idle(e) /\ e.res = "timeout" /\ Idle(e2)) => (e2.log = e.log /\ e2.pins = e.pins)

\* C26: when a busy wait of a flush (blocking or cooperative) times out, the
\* flush ends in that step with nothing written to the bus: the history of the
\* call stays as it was when the wait began to poll, holding exactly the
\* commands of the instructions before the wait and no event of a later part
\* of the flush, so after a timeout of an initialisation or refresh wait no
\* power-off or sleep command was sent; chip-select and reset are high
\* (deasserted), and nothing more is written until the next flush call.
C26_abort ==
    [][/\ TimesOut(epd, epd') => Aborted(epd, epd')
       /\ TimesOut(twin, twin') => Aborted(twin, twin')
       /\ Silent(epd, epd') /\ Silent(twin, twin')]_vars

C26_witness ==
    /\ epd.res = "timeout" /\ Idle(epd) /\ twin.res = "timeout" /\ Idle(twin)
    /\ \E j \in 1..Len(epd.log) : epd.log[j].ph = "trigger" /\ epd.log[j].what = "cmd"
    /\ \A j \in 1..Len(epd.log) : epd.log[j].ph # "off"
    /\ \A j \in 1..Len(twin.log) : twin.log[j].ph # "off"
    /\ epd.pins.cs = 1 /\ epd.pins.rst = 1 /\ twin.pins.cs = 1 /\ twin.pins.rst = 1

(***************************************************************************)
(* The raw bytes of a flush, plane by plane.                               *)
(***************************************************************************)
\* The position in the history of the write of data command c, 0 if there is none
CmdPos(L, c) ==
    LET at == {j \in 1..Len(L) : L[j].op = "wr" /\ L[j].what = "cmd"
                                    /\ L[j].ph = "data" /\ L[j].bytes = <<c>>}
    IN  IF at = {} THEN 0 ELSE CHOOSE j \in at : \A i \in at : j <= i

\* The positions lo..hi of the history that are writes of raw bytes
RawAt(L, lo, hi) == {j \in lo..hi : L[j].op = "wr" /\ L[j].what = "raw"}

\* The bytes of the writes at the positions at, in the order of the history
RECURSIVE RawCat(_, _)
RawCat(L, at) ==
    IF at = {}
    THEN <<>>
    ELSE LET m == CHOOSE j \in at : \A i \in at : i <= j
             a == RawCat(L, at \ {m})
             b == L[m].bytes
         IN  [j \in 1..(Len(a) + Len(b)) |-> IF j <= Len(a) THEN a[j] ELSE b[j - Len(a)]]

RawBytes(L, lo, hi) == RawCat(L, RawAt(L, lo, hi))

\* The bytes written after data command c and before data command d (0: to the end)
RawAfter(L, c, d) ==
    IF CmdPos(L, c) = 0
    THEN <<>>
    ELSE RawBytes(L, CmdPos(L, c) + 1, IF d = 0 \/ CmdPos(L, d) = 0 THEN Len(L) ELSE CmdPos(L, d) - 1)

\* The streams a flush can be given: the argument, or the raw frame of the frame buffer
Streams(e) == {s.bytes : s \in StreamArgs \ {NoStream}} \cup {fb2raw(e)}

\* The chunk loops of the flush have ended
DataDone(e) == \E j \in 1..Len(e.log) : Rank(e.log[j]) > 2

\* Bytes from..(from + Len(w) - 1) of stream s are the bytes w
SliceOf(w, s, from) ==
    /\ from + Len(w) - 1 <= Len(s)
    /\ \A j \in 1..Len(w) : w[j] = s[from + j - 1]

PlanesOk(e) ==
    LET L == e.log
        all == RawBytes(L, 1, Len(L))
        p1 == RawAfter(L, 16, 19)
        p2 == RawAfter(L, 19, 0)
        whole == RawAfter(L, 36, 0)
    IN  /\ e.blk >= 1
        /\ \E s \in Streams(e) :
              /\ SliceOf(all, s, 1)
              /\ InFlight(e) => /\ Len(all) + Len(e.fl[1].stream) = Len(s)
                                /\ SliceOf(e.fl[1].stream, s, Len(all) + 1)
              /\ planes_of(e.drv) = 2 =>
                    /\ Len(all) = Len(p1) + Len(p2)
                    /\ Len(p1) <= buf_len /\ Len(p2) <= buf_len
                    /\ Len(p2) > 0 => Len(p1) = buf_len
                    /\ SliceOf(p1, s, 1) /\ SliceOf(p2, s, buf_len + 1)
                    /\ DataDone(e) => Len(p1) = buf_len /\ Len(p2) = buf_len
              /\ planes_of(e.drv) = 1 =>
                    /\ Len(all) = Len(whole)
                    /\ DataDone(e) => Len(whole) = Len(s)

\* C30: in a dual-plane flush (blocking or cooperative) whose stream holds at
\* least two planes, the raw bytes written after command 0x10 are the first
\* plane-length slice of the stream and those written after command 0x13 the
\* second, each exactly one plane long once the loops have ended, byte for
\* byte in stream order, for every block size the model tries (1, 2 and the
\* default 1024, so chunks that do and do not divide the plane); in a
\* single-plane flush the raw bytes written after command 0x24 are all the
\* bytes of the stream in order.  While the flush runs, the bytes written so
\* far followed by the rest of the stream are the stream.
C30_planes == PlanesOk(epd) /\ PlanesOk(twin)

C30_witness ==
    /\ planes_of(epd.drv) = 2 /\ DataDone(epd) /\ DataDone(twin)
    /\ epd.blk = 2 /\ buf_len % epd.blk # 0
    /\ RawAfter(epd.log, 16, 19) = Ramp(buf_len)
    /\ \A j \in 1..buf_len : RawAfter(twin.log, 19, 0)[j] = buf_len + j

C30_witness_1B ==
    /\ planes_of(epd.drv) = 1 /\ DataDone(epd) /\ epd.blk = 2
    /\ Len(RawAfter(epd.log, 36, 0)) = 2 * buf_len + 1
    /\ RawAfter(epd.log, 36, 0)[2 * buf_len + 1] = 2 * buf_len + 1

====
